---- MODULE Spec2Model ----
(***************************************************************************)
(* Cook County property system: the two cache tiers and the import worker. *)
(*                                                                         *)
(*   Express proxy  - handleCachedEndpoint / fetchAndCacheSource over the  *)
(*                    PostgreSQL table property_cache (7 day freshness).   *)
(*   .NET API       - CookCountyProxyService / PropertySummaryService over *)
(*                    one shared IMemoryCache (5 minute expiry).           *)
(*                                                                         *)
(* Time is wall-clock milliseconds, as Date.now() and DateTime.UtcNow.     *)
(*                                                                         *)
(*   Spec          the Express handler, the import worker and the pool     *)
(*   SpecStore     the storage layer over several keys                     *)
(*   SpecDotNet    the .NET service calls and ClearCache over the cache    *)
(*   SpecPinCheck  the .NET service calls over every shape of identifier   *)
(*   SpecClear     the Express handler with the clear-cache endpoint       *)
(*   SpecSession   the raw .NET endpoints with the HTTP steps of a session *)
(*   SpecStructured the structured-data operations and their parsers       *)
(*   SpecFan       one fetchAllSourcesForPin call of the import worker     *)
(*   SpecImport    one import job: createImportJob and processImportJob    *)
(***************************************************************************)
EXTENDS Integers, Sequences, FiniteSets, TLC

VARIABLES
    now,          \* the wall clock, ms
    ticks,        \* clock advances taken so far (bounds the run)
    table,        \* property_cache: a set of rows
    pending,      \* upserts handed to the pool and not yet executed
    lastDone,     \* history: per (pin, source), the upsert executed last
    justDone,     \* history: the upsert executed by the latest step, if any
    req,          \* the handleCachedEndpoint invocation that is followed
    imp,          \* the upsert issued by the latest fetchAndCacheSource step, if any
    memCache,     \* IMemoryCache of the .NET API: key -> entry
    call,         \* the latest completed .NET service call
    lastSet,      \* history: per (operation, pin), the time of its latest fetch if that
                  \*          succeeded and no ClearCache has run since, else -1
    cleared,      \* the latest answer of POST /api/cook/clear-cache, with the rows of
                  \*          property_cache at that moment
    session,      \* history: the HTTP requests of the source session of the latest call,
                  \*          each with its response
    fan,          \* the fetchAllSourcesForPin call that is followed
    job,          \* the import job that is followed: import_pins and processImportJob
    bids,         \* pin_bids and the latest answer of PUT /api/pins/:pin/bids
    wire,         \* per followed request: the client, the Express-to-.NET call and
                  \*          the .NET-to-site call
    drawer,       \* the page with property-drawer.js: its state object, the container
                  \*          element, its timers and its requests in flight
    legacy,       \* db.ts: the NodeCache, and the latest fetchTaxDelinquent call with
                  \*          the requests of its session
    burst,        \* per request of a burst: where its FetchTaxPortalAsync call stands
    upcall,       \* per upstream call site: the call of it that is followed
    parse,        \* the latest call of an HTML parser: its input and what it returned
    runs,         \* the runs of processImportJob for one job, their callbacks and the timer of recoverStuckJobs
    pinRow        \* the import_pins row of one callback of processImportJob

vars == <<now, ticks, table, pending, lastDone, justDone, req, imp,
          memCache, call, lastSet, cleared, session, fan, job, bids, wire, drawer, legacy, burst,
          upcall,
          parse,
          runs,
          pinRow>>

expressVars == <<table, pending, lastDone, justDone, req, imp>>
dotnetVars == <<memCache, call, lastSet>>
importVars == <<fan, job>>
frontVars == <<bids, wire, drawer, legacy, burst, upcall, parse, runs, pinRow>>
otherThanBids == <<wire, drawer, legacy, burst, upcall, parse, runs, pinRow>>
otherThanWire == <<bids, drawer, legacy, burst, upcall, parse, runs, pinRow>>
otherThanDrawer == <<bids, wire, legacy, burst, upcall, parse, runs, pinRow>>
otherThanLegacy == <<bids, wire, drawer, burst, upcall, parse, runs, pinRow>>
otherThanBurst == <<bids, wire, drawer, legacy, upcall, parse, runs, pinRow>>
otherThanUpcall == <<bids, wire, drawer, legacy, burst, parse, runs, pinRow>>
otherThanParse == <<bids, wire, drawer, legacy, burst, upcall, runs, pinRow>>
otherThanRuns == <<bids, wire, drawer, legacy, burst, upcall, parse, pinRow>>
otherThanPinRow == <<bids, wire, drawer, legacy, burst, upcall, parse, runs>>
serverVars == <<now, ticks, expressVars, dotnetVars, cleared, session, importVars>>

-----------------------------------------------------------------------------
(* Bounds of the model *)

MaxTicks == 3
MaxPending == 2
DbLatencyCapMs == 2000
\* pins of the import job that is followed
MaxJobPins == 6

-----------------------------------------------------------------------------
(* Property identifiers: strings, as sequences of characters *)

Digits == {"0", "1", "2", "3", "4", "5", "6", "7", "8", "9"}

\* 01-01-120-006-0000
PinA == <<"0","1","-","0","1","-","1","2","0","-","0","0","6","-","0","0","0","0">>
\* 16-06-310-022-0000
PinB == <<"1","6","-","0","6","-","3","1","0","-","0","2","2","-","0","0","0","0">>
\* 123-45
PinShort == <<"1","2","3","-","4","5">>
\* 01-01-120-006-000 (13 digits)
Pin13 == <<"0","1","-","0","1","-","1","2","0","-","0","0","6","-","0","0","0">>
\* AB-01-120-006-0000
PinAlpha == <<"A","B","-","0","1","-","1","2","0","-","0","0","6","-","0","0","0","0">>
\* 01011200060000 (14 digits, no dashes)
PinRaw == <<"0","1","0","1","1","2","0","0","0","6","0","0","0","0">>
\* 01-01-120-006-0000 followed by a line feed (?pin=01-01-120-006-0000%0A)
PinNewline == PinA \o <<"\n">>
\* the empty string
PinEmpty == << >>
\* no pin parameter at all (undefined in JS, null in C#)
PinMissing == <<"undefined">>

ValidPins == {PinA, PinB}
PinInputs == {PinA, PinB, PinShort, Pin13, PinAlpha, PinRaw, PinNewline, PinEmpty, PinMissing}
\* the identifiers the Express tier's requests and imports are drawn from
ExpressPinInputs == PinInputs \ {PinB}
ImportPinInputs == {PinA}

\* /^\d{2}-\d{2}-\d{3}-\d{3}-\d{4}$/.test(pin) in JavaScript: $ is the end of input.
PIN_REGEX_test(pin) ==
    /\ Len(pin) = 18
    /\ \A i \in 1..18 : IF i \in {3, 6, 10, 14} THEN pin[i] = "-" ELSE pin[i] \in Digits

\* handleCachedEndpoint's guard: !pin || !PIN_REGEX.test(pin)
PinRejected(pin) == pin = PinMissing \/ Len(pin) = 0 \/ ~PIN_REGEX_test(pin)

-----------------------------------------------------------------------------
(* The clock *)

CACHE_MAX_AGE_HOURS == 24 * 7

\* isCacheStale as written, with the comparison turned into >=
isCacheStale_inclusive(fetchedAt) ==
    LET ageMs == now - fetchedAt
    IN  ageMs >= CACHE_MAX_AGE_HOURS * 60 * 60 * 1000

isCacheStale(fetchedAt) ==
    LET ageMs == now - fetchedAt
    IN  ageMs > CACHE_MAX_AGE_HOURS * 60 * 60 * 1000

ClockSteps == {1000, CACHE_MAX_AGE_HOURS * 60 * 60 * 1000 - 1000}
StoreClockSteps == {1000}
\* the model's clock stops here
ClockCap == CACHE_MAX_AGE_HOURS * 60 * 60 * 1000 + (MaxTicks - 1) * 1000

-----------------------------------------------------------------------------
(* property_cache and the storage layer (storage.ts, schema.ts) *)

Null == "null"
Undefined == "undefined"
Payloads == {"d1", "d2"}

SOURCES == {"tax-portal", "clerk", "recorder", "cookviewer"}
\* the sources the requests and imports of the handler's specification are drawn from
SourceInputs == {"tax-portal"}
\* the keys the storage specification writes: two sources of one identifier
StoreKeyInputs == {<<PinA, "tax-portal">>, <<PinA, "clerk">>}

Keys == ValidPins \X SOURCES

NoRow == [pin |-> PinMissing, source |-> "none", data |-> Null, error |-> Null, fetchedAt |-> -1]
NoWrite == [pin |-> PinMissing, source |-> "none", data |-> Null, error |-> Null,
            fetchedAt |-> -1, conflict |-> FALSE]

\* error || null
OrNull(error) == IF error \in {Undefined, ""} THEN Null ELSE error

\* upsertCache(dbConn, pin, source, data, error): the statement it builds; both
\* new Date() are taken when it is built, not when the pool executes it. db and
\* importDb are two pools over the same DATABASE_URL, so dbConn does not show in it.
upsertCache(dbConn, pin, source, data, error) ==
    [pin |-> pin, source |-> source, data |-> data, error |-> OrNull(error),
     fetchedAt |-> now, conflict |-> FALSE]

RowOf(w) == [pin |-> w.pin, source |-> w.source, data |-> w.data, error |-> w.error,
             fetchedAt |-> w.fetchedAt]

Conflicts(tbl, w) == {r \in tbl : r.pin = w.pin /\ r.source = w.source}

\* ON CONFLICT DO UPDATE that sets data only
ExecUpsert_dataOnly(tbl, w) ==
    IF Conflicts(tbl, w) = {}
    THEN tbl \cup {RowOf(w)}
    ELSE {IF r \in Conflicts(tbl, w) THEN [r EXCEPT !.data = w.data] ELSE r : r \in tbl}

\* ON CONFLICT DO NOTHING
ExecUpsert_keepOld(tbl, w) ==
    IF Conflicts(tbl, w) = {} THEN tbl \cup {RowOf(w)} ELSE tbl

\* INSERT ... ON CONFLICT (pin, source) DO UPDATE SET data, error, fetched_at,
\* over the unique index uq_property_cache_pin_source
ExecUpsert(tbl, w) ==
    IF Conflicts(tbl, w) = {}
    THEN tbl \cup {RowOf(w)}
    ELSE {IF r \in Conflicts(tbl, w)
          THEN [r EXCEPT !.data = w.data, !.error = w.error, !.fetchedAt = w.fetchedAt]
          ELSE r : r \in tbl}

\* getCachedData: WHERE pin, source ORDER BY fetched_at DESC LIMIT 1; rows[0] || null
getCachedData(pin, source) ==
    LET rows == {r \in table : r.pin = pin /\ r.source = source}
    IN  IF rows = {} THEN NoRow
        ELSE CHOOSE r \in rows : \A q \in rows : q.fetchedAt <= r.fetchedAt

\* setCachedData / setCachedDataImport: the upsert handed to its pool
setCachedData(pin, source, data, error) == upsertCache("db", pin, source, data, error)
setCachedDataImport(pin, source, data, error) == upsertCache("importDb", pin, source, data, error)

-----------------------------------------------------------------------------
(* The Express proxy: proxyToDoNet, handleCachedEndpoint, fetchAndCacheSource *)

UpOk(d) == [status |-> 200, success |-> TRUE, data |-> d, error |-> Undefined, code |-> Undefined]
\* an ApiErrorResponse of the .NET API, answered with 502
UpSourceError == [status |-> 502, success |-> FALSE, data |-> Undefined,
                  error |-> "Failed to fetch tax portal data", code |-> "FETCH_ERROR"]
\* fetch() or response.json() threw
Threw == [status |-> 0, success |-> FALSE, data |-> Undefined, error |-> Undefined, code |-> "thrown"]

NetworkOutcomes == {UpOk(d) : d \in Payloads} \cup {UpSourceError, Threw}
\* the outcomes the import worker's fetches are drawn from
StoreOutcomes == {UpOk(d) : d \in Payloads} \cup {UpSourceError}

DotNetUnavailable == [status |-> 502, success |-> FALSE, data |-> Undefined,
                      error |-> ".NET API is not available. Please ensure the 'Start .NET API' workflow is running.",
                      code |-> "DOTNET_UNAVAILABLE"]

\* proxyToDoNet: the response's status and JSON body, or the 502 of the catch block
proxyToDoNet(outcome) == IF outcome = Threw THEN DotNetUnavailable ELSE outcome

\* response.success && response.data
LiveOk(up) == up.success /\ up.data \notin {Null, Undefined}

NoResp == [status |-> 0, success |-> FALSE, data |-> Undefined, error |-> Undefined,
           code |-> Undefined, cached |-> FALSE, cachedAt |-> -1, stale |-> FALSE]

InvalidPinResp == [NoResp EXCEPT !.status = 400, !.error = "Invalid PIN format", !.code = "INVALID_PIN"]

\* res.json({ success: true, data: cached.data, cached: true, cachedAt: cached.fetchedAt })
CachedResp(cached) ==
    [NoResp EXCEPT !.status = 200, !.success = TRUE, !.data = cached.data,
                   !.cached = TRUE, !.cachedAt = cached.fetchedAt]

\* the fallback answered without the stale annotation
StaleResp_unflagged(cached) == CachedResp(cached)

\* the same with stale: true
StaleResp(cached) == [CachedResp(cached) EXCEPT !.stale = TRUE]

\* res.status(status).json(data)
PassThrough(up) ==
    [NoResp EXCEPT !.status = up.status, !.success = up.success, !.data = up.data,
                   !.error = up.error, !.code = up.code]

\* line 277: cached?.data && !isCacheStale(cached.fetchedAt)
ServeFromCache(cached) == cached.data # Null /\ ~isCacheStale(cached.fetchedAt)

\* lines 283-288 with the stale fallback taken whenever the fetch failed
RespondAfterProxy_alwaysFallback(cached, up) ==
    IF LiveOk(up) THEN PassThrough(up) ELSE StaleResp(cached)

\* lines 283-288 without the stale fallback
RespondAfterProxy_noFallback(cached, up) == PassThrough(up)

\* lines 283-288: what handleCachedEndpoint answers once proxyToDoNet has returned
RespondAfterProxy(cached, up) ==
    IF LiveOk(up) THEN PassThrough(up)
    ELSE IF cached.data # Null THEN StaleResp(cached)
    ELSE PassThrough(up)

\* line 284: the fire-and-forget setCachedData, issued on success only
WriteAfterProxy(pin, source, up) ==
    IF LiveOk(up) THEN setCachedData(pin, source, up.data, Undefined) ELSE NoWrite

\* `HTTP ${status}`
HttpStatusText(status) == IF status = 500 THEN "HTTP 500" ELSE IF status = 502 THEN "HTTP 502" ELSE "HTTP 200"

\* fetchAndCacheSource: the cacheWriter call it makes for the proxy's answer
fetchAndCacheSource(pin, source, up) ==
    IF LiveOk(up)
    THEN setCachedDataImport(pin, source, up.data, Undefined)
    ELSE setCachedDataImport(pin, source, Null,
                             IF up.error \in {Undefined, ""} THEN HttpStatusText(up.status) ELSE up.error)

\* no clear-cache call has been answered since the latest delivered response
NoClear == [status |-> 0, pin |-> PinMissing, message |-> Null, rows |-> {}]

IdleReq == [pc |-> "idle", pin |-> PinMissing, source |-> "none", cached |-> NoRow,
            readAt |-> -1, reads |-> 0, fetches |-> 0,
            up |-> Threw, wrote |-> NoWrite, resp |-> NoResp]

KeyOf(pin, source) == <<pin, source>>

\* One invocation of handleCachedEndpoint is followed at a time. What the other
\* invocations in flight do to property_cache is an upsert of a fetched payload,
\* the statement ImportFetch issues on success; it stands for them as well.
\* res.json() ends an invocation: no other step of the event loop runs between the
\* continuation that builds the response and its delivery.
NoneAnswering == req.pc # "done"

\* A request arrives: the PIN check, then the awaited getCachedData and the
\* cache-first answer; otherwise proxyToDoNet is called and awaited.
Request(pin, source) ==
    /\ NoneAnswering
    /\ req.pc = "idle"
    /\ IF PinRejected(pin)
       THEN req' = [IdleReq EXCEPT !.pc = "done", !.pin = pin, !.source = source,
                                   !.resp = InvalidPinResp]
       ELSE LET cached == getCachedData(pin, source)
                base == [IdleReq EXCEPT !.pin = pin, !.source = source, !.cached = cached,
                                        !.readAt = now, !.reads = 1]
            IN  IF ServeFromCache(cached)
                THEN req' = [base EXCEPT !.pc = "done", !.resp = CachedResp(cached)]
                ELSE req' = [base EXCEPT !.pc = "proxy", !.fetches = 1]
    /\ justDone' = NoWrite
    /\ imp' = NoWrite
    /\ UNCHANGED <<now, ticks, table, pending, lastDone>>
    /\ UNCHANGED dotnetVars
    /\ UNCHANGED <<cleared, session>>
    /\ UNCHANGED importVars
    /\ UNCHANGED frontVars

\* proxyToDoNet returns to a waiting request: cache write, stale fallback or pass-through.
ProxyReturns(outcome) ==
    /\ NoneAnswering
    /\ req.pc = "proxy"
    /\ LET r == req
           up == proxyToDoNet(outcome)
           w == WriteAfterProxy(r.pin, r.source, up)
       IN  /\ w # NoWrite => Cardinality(pending) < MaxPending
           /\ req' = [r EXCEPT !.pc = "done", !.up = up, !.wrote = w,
                                !.resp = RespondAfterProxy(r.cached, up)]
           /\ pending' = IF w = NoWrite THEN pending ELSE pending \cup {w}
    /\ justDone' = NoWrite
    /\ imp' = NoWrite
    /\ UNCHANGED <<now, ticks, table, lastDone>>
    /\ UNCHANGED dotnetVars
    /\ UNCHANGED <<cleared, session>>
    /\ UNCHANGED importVars
    /\ UNCHANGED frontVars

\* The import worker runs fetchAndCacheSource for one (pin, source): the proxy call
\* and the awaited cache write of its outcome.
ImportFetch(pin, source, outcome) ==
    /\ NoneAnswering
    /\ Cardinality(pending) < MaxPending
    /\ LET up == proxyToDoNet(outcome)
           w == fetchAndCacheSource(pin, source, up)
       IN  /\ pending' = pending \cup {w}
           /\ imp' = w
    /\ justDone' = NoWrite
    /\ UNCHANGED <<now, ticks, table, lastDone, req>>
    /\ UNCHANGED dotnetVars
    /\ UNCHANGED <<cleared, session>>
    /\ UNCHANGED importVars
    /\ UNCHANGED frontVars

\* The response of the finished invocation is delivered; the next one can be followed.
Deliver ==
    /\ req.pc = "done"
    /\ req' = IdleReq
    /\ justDone' = NoWrite
    /\ imp' = NoWrite
    /\ cleared' = NoClear
    /\ UNCHANGED <<now, ticks, table, pending, lastDone>>
    /\ UNCHANGED dotnetVars
    /\ UNCHANGED session
    /\ UNCHANGED importVars
    /\ UNCHANGED frontVars

\* The pool executes a pending upsert.
ExecWrite(w) ==
    /\ NoneAnswering
    /\ w \in pending
    /\ table' = ExecUpsert(table, w)
    /\ pending' = pending \ {w}
    /\ lastDone' = [lastDone EXCEPT ![KeyOf(w.pin, w.source)] = w]
    /\ justDone' = [w EXCEPT !.conflict = (Conflicts(table, w) # {})]
    /\ imp' = NoWrite
    /\ UNCHANGED <<now, ticks, req>>
    /\ UNCHANGED dotnetVars
    /\ UNCHANGED <<cleared, session>>
    /\ UNCHANGED importVars
    /\ UNCHANGED frontVars

\* The database rejects a pending upsert (the promise rejects; line 284 swallows it).
FailWrite(w) ==
    /\ NoneAnswering
    /\ w \in pending
    /\ pending' = pending \ {w}
    /\ justDone' = NoWrite
    /\ imp' = NoWrite
    /\ UNCHANGED <<now, ticks, table, lastDone, req>>
    /\ UNCHANGED dotnetVars
    /\ UNCHANGED <<cleared, session>>
    /\ UNCHANGED importVars
    /\ UNCHANGED frontVars

\* Time passes; a statement handed to the pool does not stay there longer than
\* DbLatencyCapMs.
Tick(d, cap) ==
    /\ NoneAnswering
    /\ call.op = "none"
    /\ ticks < MaxTicks
    /\ now + d <= cap
    /\ \A w \in pending : now + d - w.fetchedAt <= DbLatencyCapMs
    /\ now' = now + d
    /\ ticks' = ticks + 1
    /\ justDone' = NoWrite
    /\ imp' = NoWrite
    /\ UNCHANGED <<table, pending, lastDone, req>>
    /\ UNCHANGED dotnetVars
    /\ UNCHANGED <<cleared, session>>
    /\ UNCHANGED importVars
    /\ UNCHANGED frontVars

InitExpress ==
    /\ now = 0
    /\ ticks = 0
    /\ table = {}
    /\ pending = {}
    /\ lastDone = [k \in Keys |-> NoWrite]
    /\ justDone = NoWrite
    /\ req = IdleReq
    /\ imp = NoWrite

-----------------------------------------------------------------------------
(* The .NET API: CookCountyProxyService and PropertySummaryService over the one *)
(* IMemoryCache registered by AddMemoryCache                                    *)

\* TimeSpan.FromMinutes(5), in ms
CacheDuration == 5 * 60 * 1000

\* PinRegex.IsMatch(pin): in .NET, $ matches at the end of the input and also
\* before a line feed that ends the input.
PinRegex_IsMatch(pin) ==
    LET body == IF Len(pin) > 0 /\ pin[Len(pin)] = "\n" THEN SubSeq(pin, 1, Len(pin) - 1) ELSE pin
    IN  /\ Len(body) = 18
        /\ \A i \in 1..18 : IF i \in {3, 6, 10, 14} THEN body[i] = "-" ELSE body[i] \in Digits

\* !string.IsNullOrEmpty(pin) && PinRegex.IsMatch(pin)
ValidatePin(pin) == pin # PinMissing /\ Len(pin) # 0 /\ PinRegex_IsMatch(pin)

FetchOps == {"FetchTaxPortalAsync", "FetchCountyClerkAsync", "FetchTreasurerAsync",
             "FetchRecorderAsync", "FetchAssessorAsync"}
GetOps == {"GetTaxPortalDataAsync", "GetClerkDataAsync", "GetRecorderDataAsync",
           "GetCookViewerDataAsync"}

\* the operations, identifiers and upstream pages the .NET calls are drawn from
FetchOpInputs == {"FetchTaxPortalAsync", "FetchCountyClerkAsync"}
GetOpInputs == {"GetTaxPortalDataAsync", "GetClerkDataAsync"}
DotNetPinInputs == {PinA, PinShort, PinEmpty, PinMissing}
\* the same for the specification of the PIN check
PinCheckFetchOps == {"FetchTaxPortalAsync", "FetchAssessorAsync"}
PinCheckGetOps == {"GetTaxPortalDataAsync", "GetCookViewerDataAsync"}
PinCheckInputs == PinInputs \ {PinB}
PinCheckPages == {"h1"}
HtmlPages == {"h1", "h2"}

\* $"taxportal_{pin}", $"countyclerk_{pin}", ... of the Fetch*Async methods
FetchCacheKey(op, pin) ==
    CASE op = "FetchTaxPortalAsync" -> <<"taxportal_", pin>>
      [] op = "FetchCountyClerkAsync" -> <<"countyclerk_", pin>>
      [] op = "FetchTreasurerAsync" -> <<"treasurer_", pin>>
      [] op = "FetchRecorderAsync" -> <<"recorder_", pin>>
      [] op = "FetchAssessorAsync" -> <<"assessor_", pin>>

\* $"taxportal_{pin}", $"clerk_{pin}", ... of the Get*DataAsync methods
GetCacheKey(op, pin) ==
    CASE op = "GetTaxPortalDataAsync" -> <<"taxportal_", pin>>
      [] op = "GetClerkDataAsync" -> <<"clerk_", pin>>
      [] op = "GetRecorderDataAsync" -> <<"recorder_", pin>>
      [] op = "GetCookViewerDataAsync" -> <<"cookviewer_", pin>>

\* Parse*Result on a result that is no success: summary.Errors[...]
ParseErrorText(op) ==
    CASE op = "GetTaxPortalDataAsync" -> "Failed to fetch tax portal data"
      [] op = "GetClerkDataAsync" -> "Failed to fetch delinquent tax data"
      [] op = "GetRecorderDataAsync" -> "Failed to fetch recorder data"
      [] op = "GetCookViewerDataAsync" -> "Failed to fetch GIS map"

\* Parse*Result when the parser throws: summary.Errors[...] of its catch block
ParseThrowText(op) ==
    CASE op = "GetTaxPortalDataAsync" -> "Failed to parse tax portal data"
      [] op = "GetClerkDataAsync" -> "Failed to parse delinquent tax data"
      [] op = "GetRecorderDataAsync" -> "Failed to parse recorder data"
      [] op = "GetCookViewerDataAsync" -> "Failed to fetch GIS map"

\* the _proxyService method a Get*DataAsync method awaits
InnerFetch(op) ==
    CASE op = "GetTaxPortalDataAsync" -> "FetchTaxPortalAsync"
      [] op = "GetClerkDataAsync" -> "FetchCountyClerkAsync"
      [] op = "GetRecorderDataAsync" -> "FetchRecorderAsync"
      [] op = "GetCookViewerDataAsync" -> "FetchCookViewerMapAsync"

CachePrefixes == {"taxportal_", "countyclerk_", "treasurer_", "recorder_", "assessor_",
                  "clerk_", "cookviewer_"}
CacheKeys == CachePrefixes \X {p \in PinInputs : ValidatePin(p)}

\* A cached object: the cleaned HTML (a string) or the data parsed from it (a
\* *StructuredData object, with its Error property).
NoValue == [html |-> Null, error |-> Null]
NoEntry == [type |-> "none", value |-> NoValue, expiresAt |-> -1]

\* _cache.TryGetValue(key, out T? v) && v != null: an entry that has not expired
\* and holds an object of type T
TryGetValue(cache, key, type) ==
    /\ key \in DOMAIN cache
    /\ cache[key].type = type
    /\ now < cache[key].expiresAt
    /\ cache[key].value # NoValue

\* _cache.Set(key, value, CacheDuration): absolute expiry, relative to now
CacheSet(cache, key, type, value) ==
    [cache EXCEPT ![key] = [type |-> type, value |-> value, expiresAt |-> now + CacheDuration]]

\* _cache.Remove(key)
CacheRemove(cache, key) == IF key \in DOMAIN cache THEN [cache EXCEPT ![key] = NoEntry] ELSE cache

\* what the upstream site answers to a fetch: a page, or nothing usable
SiteOk(h) == [ok |-> TRUE, html |-> h, code |-> Null]
SiteDown == [ok |-> FALSE, html |-> Null, code |-> "FETCH_ERROR"]
SiteOutcomes == {SiteOk(h) : h \in HtmlPages} \cup {SiteDown}
PinCheckSites == {SiteOk(h) : h \in PinCheckPages} \cup {SiteDown}

InvalidPinResult(cache) ==
    [cache |-> cache, success |-> FALSE, code |-> "INVALID_PIN", data |-> NoValue,
     hit |-> FALSE, outbound |-> 0, cacheAccess |-> FALSE, inner |-> "none", innerOk |-> FALSE,
                   parseThrew |-> FALSE]

\* Fetch*Async(pin): ValidatePin, the cache check, the upstream fetch, and
\* _cache.Set on success only
FetchAsync(cache, op, pin, site) ==
    IF ~ValidatePin(pin) THEN InvalidPinResult(cache)
    ELSE LET cacheKey == FetchCacheKey(op, pin)
         IN  IF TryGetValue(cache, cacheKey, "string")
             THEN [cache |-> cache, success |-> TRUE, code |-> Null, data |-> cache[cacheKey].value,
                   hit |-> TRUE, outbound |-> 0, cacheAccess |-> TRUE, inner |-> "none", innerOk |-> FALSE,
                   parseThrew |-> FALSE]
             ELSE IF site.ok
             THEN [cache |-> CacheSet(cache, cacheKey, "string", [html |-> site.html, error |-> Null]),
                   success |-> TRUE, code |-> Null, data |-> [html |-> site.html, error |-> Null],
                   hit |-> FALSE, outbound |-> 1, cacheAccess |-> TRUE, inner |-> "none", innerOk |-> FALSE,
                   parseThrew |-> FALSE]
             ELSE [cache |-> cache, success |-> FALSE, code |-> site.code, data |-> NoValue,
                   hit |-> FALSE, outbound |-> 1, cacheAccess |-> TRUE, inner |-> "none", innerOk |-> FALSE,
                   parseThrew |-> FALSE]

\* HtmlDocument / JsonDocument code throws on this page
ParseThrows(html) == html = "unparsable"

\* FetchCookViewerMapAsync(pin): the GIS query, no cache of its own; null (no
\* success) on a failing status and on any exception, parsing included
FetchCookViewerMapAsync(cache, pin, site) ==
    [cache |-> cache, success |-> site.ok /\ ~ParseThrows(site.html), code |-> Null,
     data |-> [html |-> site.html, error |-> Null],
     hit |-> FALSE, outbound |-> 1, cacheAccess |-> FALSE, inner |-> "none", innerOk |-> FALSE,
                   parseThrew |-> FALSE]

\* Parse*Result with the catch block of the parser left out: no error is recorded
\* when parsing throws
StructuredRecord_noParseError(op, result) ==
    IF result.success
    THEN [html |-> IF ParseThrows(result.data.html) THEN Null ELSE result.data.html, error |-> Null]
    ELSE [html |-> Null, error |-> ParseErrorText(op)]

\* Parse*Result and the assignments after it: the parsed data of a successful
\* result, or a record with Error set when the result is no success or parsing
\* threw
StructuredRecord(op, result) ==
    IF result.success
    THEN IF ParseThrows(result.data.html)
         THEN [html |-> Null, error |-> ParseThrowText(op)]
         ELSE [html |-> result.data.html, error |-> Null]
    ELSE [html |-> Null, error |-> ParseErrorText(op)]

\* Get*DataAsync(pin): ValidatePin, the typed cache check, the inner fetch, the
\* follow-up request some of them make (Street View image, considerations), and
\* _cache.Set of the result whether or not it carries an Error
GetDataAsync(cache, op, pin, site, followUp) ==
    IF ~ValidatePin(pin) THEN InvalidPinResult(cache)
    ELSE LET cacheKey == GetCacheKey(op, pin)
         IN  IF TryGetValue(cache, cacheKey, "structured")
             THEN [cache |-> cache, success |-> TRUE, code |-> Null, data |-> cache[cacheKey].value,
                   hit |-> TRUE, outbound |-> 0, cacheAccess |-> TRUE, inner |-> "none", innerOk |-> FALSE,
                   parseThrew |-> FALSE]
             ELSE LET result == IF op = "GetCookViewerDataAsync"
                                THEN FetchCookViewerMapAsync(cache, pin, site)
                                ELSE FetchAsync(cache, InnerFetch(op), pin, site)
                      data == StructuredRecord(op, result)
                      more == IF result.success /\ followUp
                                 /\ op \in {"GetTaxPortalDataAsync", "GetRecorderDataAsync"}
                              THEN 1 ELSE 0
                 IN  [cache |-> CacheSet(result.cache, cacheKey, "structured", data),
                      success |-> TRUE, code |-> Null, data |-> data,
                      hit |-> FALSE, outbound |-> result.outbound + more, cacheAccess |-> TRUE,
                      inner |-> IF op # "GetCookViewerDataAsync" /\ ~result.hit
                                THEN InnerFetch(op) ELSE "none",
                      innerOk |-> result.success,
                      parseThrew |-> result.success /\ ParseThrows(result.data.html)]

\* ClearCache(pin): five Remove calls for a non-empty pin, a log line otherwise
ClearCache(cache, pin) ==
    IF pin # PinMissing /\ Len(pin) # 0
    THEN LET c1 == CacheRemove(cache, <<"taxportal_", pin>>)
             c2 == CacheRemove(c1, <<"countyclerk_", pin>>)
             c3 == CacheRemove(c2, <<"treasurer_", pin>>)
             c4 == CacheRemove(c3, <<"recorder_", pin>>)
         IN  CacheRemove(c4, <<"assessor_", pin>>)
    ELSE cache

\* the Message of the CacheClearResponse the controller answers with
ClearCacheMessage(pin) ==
    IF pin = PinMissing \/ Len(pin) = 0 THEN "All cache cleared" ELSE "Cache cleared for PIN"

OpKeys == (FetchOps \cup GetOps) \X {p \in PinInputs : ValidatePin(p)}

NoCall == [op |-> "none", pin |-> PinMissing, at |-> -1, success |-> FALSE, code |-> Null,
           data |-> NoValue, hit |-> FALSE, outbound |-> 0, cacheAccess |-> FALSE,
           since |-> -1, status |-> 0, innerOk |-> FALSE, parseThrew |-> FALSE]

\* error.Code switch { ... } of a raw endpoint, with every other code taken for
\* a bad gateway
ControllerStatus_no404(op, success, code) ==
    IF success THEN 200
    ELSE IF code = "INVALID_PIN" THEN 400
    ELSE 502

\* The controller's answer to a service result: Ok(result), or StatusCode(...) by
\* error.Code; only the raw endpoints know NOT_FOUND.
ControllerStatus(op, success, code) ==
    IF success THEN 200
    ELSE IF code = "INVALID_PIN" THEN 400
    ELSE IF code = "NOT_FOUND" /\ op \in FetchOps THEN 404
    ELSE 502

\* the record of a finished call: its result, and the time of the same operation's
\* latest fetch of this pin if that succeeded and no ClearCache has run since
CallRecord(op, pin, r) ==
    [op |-> op, pin |-> pin, at |-> now, success |-> r.success, code |-> r.code,
     data |-> r.data, hit |-> r.hit, outbound |-> r.outbound, cacheAccess |-> r.cacheAccess,
     since |-> IF <<op, pin>> \in OpKeys THEN lastSet[<<op, pin>>] ELSE -1,
     status |-> ControllerStatus(op, r.success, r.code),
     innerOk |-> r.innerOk, parseThrew |-> r.parseThrew]

\* the operation fetched and produced a usable result (not served from its cache);
\* r.inner names the Fetch*Async method that fetched on behalf of a Get*DataAsync
FetchedWithSuccess(r) == r.success /\ ~r.hit /\ r.data.error = Null

\* what a call that ends with result r leaves behind
Finish(op, pin, r) ==
    /\ memCache' = r.cache
    /\ call' = CallRecord(op, pin, r)
    /\ lastSet' = [k \in OpKeys |->
                       IF k = <<op, pin>> /\ ~r.hit
                       THEN (IF FetchedWithSuccess(r) THEN now ELSE -1)
                       ELSE IF k = <<r.inner, pin>>
                       THEN (IF r.innerOk THEN now ELSE -1)
                       ELSE lastSet[k]]
    /\ UNCHANGED <<now, ticks>>
    /\ UNCHANGED expressVars
    /\ UNCHANGED <<cleared>>
    /\ UNCHANGED importVars
    /\ UNCHANGED frontVars

\* GET /api/CookCounty/tax-portal, /county-clerk, ...: one Fetch*Async call
\* (a call runs to its result; the controller returns it before the next call starts)
CallFetch(op, pin, site) ==
    /\ call = NoCall
    /\ Finish(op, pin, FetchAsync(memCache, op, pin, site))
    /\ UNCHANGED session

\* GET /api/CookCounty/tax-portal-data, /clerk-data, ...: one Get*DataAsync call
CallGet(op, pin, site, followUp) ==
    /\ call = NoCall
    /\ Finish(op, pin, GetDataAsync(memCache, op, pin, site, followUp))
    /\ UNCHANGED session

\* POST /api/CookCounty/clear-cache
CallClearCache(pin) ==
    /\ call = NoCall
    /\ memCache' = ClearCache(memCache, pin)
    /\ call' = [NoCall EXCEPT !.op = "ClearCache", !.pin = pin, !.at = now, !.success = TRUE,
                              !.status = 200]
    /\ lastSet' = [k \in OpKeys |-> IF pin \in {k[2], PinMissing, PinEmpty} THEN -1 ELSE lastSet[k]]
    /\ UNCHANGED <<now, ticks>>
    /\ UNCHANGED expressVars
    /\ UNCHANGED <<cleared, session>>
    /\ UNCHANGED importVars
    /\ UNCHANGED frontVars

\* The controller has returned the result of the latest call.
Return ==
    /\ call # NoCall
    /\ call' = NoCall
    /\ UNCHANGED <<now, ticks, memCache, lastSet>>
    /\ UNCHANGED expressVars
    /\ UNCHANGED <<cleared, session>>
    /\ UNCHANGED importVars
    /\ UNCHANGED frontVars

DotNetClockSteps == {CacheDuration - 1000, CacheDuration}
\* the clock of the .NET specification stops here
DotNetClockCap == CacheDuration

InitDotNet ==
    /\ memCache = [k \in CacheKeys |-> NoEntry]
    /\ call = NoCall
    /\ lastSet = [k \in OpKeys |-> -1]

-----------------------------------------------------------------------------
(* The clear-cache endpoint of the Express proxy *)

ClearPinInputs == {PinA, PinMissing}
\* what the import and the live fetch are answered in the specification of the clear
ClearImportOutcomes == {UpOk("d1"), UpSourceError}
ClearLiveOutcomes == {UpOk("d2"), UpSourceError}

\* POST /api/cook/clear-cache: the call is forwarded to the .NET API (with the pin
\* if one was given) and its answer is passed on; 502 when the API cannot be
\* reached. property_cache is not touched.
ClearCacheEndpoint(pin, reachable) ==
    /\ NoneAnswering
    /\ req.pc = "idle"
    /\ call = NoCall
    /\ IF reachable
       THEN /\ memCache' = ClearCache(memCache, pin)
            /\ lastSet' = [k \in OpKeys |->
                               IF pin \in {k[2], PinMissing, PinEmpty} THEN -1 ELSE lastSet[k]]
            /\ cleared' = [status |-> 200, pin |-> pin, message |-> ClearCacheMessage(pin),
                           rows |-> table]
       ELSE /\ UNCHANGED <<memCache, lastSet>>
            /\ cleared' = [NoClear EXCEPT !.status = 502, !.pin = pin, !.message = ".NET API is not available"]
    /\ justDone' = NoWrite
    /\ imp' = NoWrite
    /\ UNCHANGED <<now, ticks, table, pending, lastDone, req, call, session>>
    /\ UNCHANGED importVars
    /\ UNCHANGED frontVars

InitClear == cleared = NoClear

-----------------------------------------------------------------------------
(* The source sessions of CookCountyProxyService: the HTTP steps of a fetch *)

\* an HTTP response of a source site, or the exception of a request that got none
\* (timeout, connection error)
HttpWithCookie(status, body, cookie) ==
    [kind |-> "resp", status |-> status, body |-> body, cookie |-> cookie]
Http(status, body) == HttpWithCookie(status, body, "")
HttpThrew == [kind |-> "threw", status |-> 0, body |-> "", cookie |-> ""]
\* a page with the hidden form fields, a results page, the error page of a
\* failing site, no response
StepInputs == {Http(200, "form"), Http(200, "h1"), Http(500, "errpage"), HttpThrew}
\* the landing page of the tax portal: also without its view-state generator
TaxPortalPageInputs == StepInputs \cup {Http(200, "formNoGenerator")}
\* the root page of the clerk: also with a Set-Cookie header
ClerkPageInputs == StepInputs \cup {HttpWithCookie(200, "form", "sid=1")}
\* the ResultByPin page of the recorder: also a page that says no document was found
RecorderResultInputs == {Http(200, "h1"), Http(200, "nodocs"), Http(500, "errpage"), HttpThrew}
\* the pins of the specifications of one source
ProtocolPinInputs == {PinA, PinB, PinShort}
SessionPinInputs == {PinA, PinShort}

IsSuccessStatusCode(r) == r.status >= 200 /\ r.status <= 299

\* the hidden inputs of a page
HiddenFields(html) ==
    CASE html = "form" ->
             {"__VIEWSTATE", "__VIEWSTATEGENERATOR", "__EVENTVALIDATION", "__RequestVerificationToken"}
      [] html = "formNoGenerator" ->
             {"__VIEWSTATE", "__EVENTVALIDATION", "__RequestVerificationToken"}
      [] OTHER -> {}

\* ExtractFormValue(html, fieldName): the value of the hidden input, or null
ExtractFormValue(html, fieldName) ==
    IF fieldName \in HiddenFields(html) THEN "value of " \o fieldName ELSE Null

string_IsNullOrEmpty(s) == s = Null \/ s = ""

\* pin.Replace("-", "")
StripDashes(pin) == SelectSeq(pin, LAMBDA c : c # "-")

\* a request of a session, and the request with what came back for it
NoForm == [token |-> Null, pin |-> PinMissing]
HttpRequest(method, url, form, cookie) ==
    [method |-> method, url |-> url, form |-> form, cookie |-> cookie]
Exchange(request, r) ==
    [req |-> request, kind |-> r.kind, status |-> r.status, body |-> r.body, cookie |-> r.cookie]

\* the page carries the anti-forgery token of the clerk's and the recorder's form
HasToken(body) == "__RequestVerificationToken" \in HiddenFields(body)
\* the page carries the markers of a results page
HasResults(body) == body = "h1"

\* the result of a session: an error code, or the page cleaned from a response
\* body (named after that body), with the responses the session received
SessionError(code, steps) == [ok |-> FALSE, html |-> Null, code |-> code, steps |-> steps]
SessionOk(html, steps) == [ok |-> TRUE, html |-> html, code |-> Null, steps |-> steps]

\* FetchFromAssessorFallback: one GET with the dashes of the pin removed, status
\* checked
AssessorFallback(pin, r, steps) ==
    LET fb == Exchange(HttpRequest("GET", "assessor/pin", [NoForm EXCEPT !.pin = StripDashes(pin)], ""), r)
    IN  IF fb.kind = "threw" THEN SessionError("FETCH_ERROR", steps \o <<fb>>)
        ELSE IF ~IsSuccessStatusCode(fb) THEN SessionError("FETCH_ERROR", steps \o <<fb>>)
        ELSE IF ~HasResults(fb.body) THEN SessionError("PARSE_ERROR", steps \o <<fb>>)
        ELSE SessionOk(fb.body, steps \o <<fb>>)

\* the three assignments of FetchTaxPortalAsync that read the tokens of the page
TaxPortalTokens(initialHtml) ==
    [viewState |-> ExtractFormValue(initialHtml, "__VIEWSTATE"),
     viewStateGenerator |-> ExtractFormValue(initialHtml, "__VIEWSTATEGENERATOR"),
     eventValidation |-> ExtractFormValue(initialHtml, "__EVENTVALIDATION")]

\* FetchTaxPortalAsync: GET default.aspx, POST pinresults.aspx, both with a status
\* check; the Assessor fallback when the answer holds no property data
TaxPortalSession(pin, r1, r2, r3) ==
    LET s1 == Exchange(HttpRequest("GET", "taxportal/default.aspx", NoForm, ""), r1)
        tokens == TaxPortalTokens(s1.body)
        s2 == Exchange(HttpRequest("POST", "taxportal/pinresults.aspx",
                                   [token |-> tokens, pin |-> pin], ""), r2)
    IN  IF s1.kind = "threw" THEN SessionError("FETCH_ERROR", <<s1>>)
        ELSE IF ~IsSuccessStatusCode(s1) THEN SessionError("FETCH_ERROR", <<s1>>)
        ELSE IF string_IsNullOrEmpty(tokens.viewState) \/ string_IsNullOrEmpty(tokens.eventValidation)
             THEN SessionError("FETCH_ERROR", <<s1>>)
        ELSE IF s2.kind = "threw" THEN SessionError("FETCH_ERROR", <<s1, s2>>)
        ELSE IF ~IsSuccessStatusCode(s2) THEN SessionError("FETCH_ERROR", <<s1, s2>>)
        ELSE IF HasResults(s2.body) THEN SessionOk(s2.body, <<s1, s2>>)
        ELSE AssessorFallback(pin, r3, <<s1, s2>>)

\* FetchCountyClerkAsync with the token check left out
CountyClerkSession_noTokenCheck(pin, r1, r2) ==
    LET s1 == Exchange(HttpRequest("GET", "clerk/", NoForm, ""), r1)
        s2 == Exchange(HttpRequest("POST", "clerk/",
                                   [token |-> ExtractFormValue(s1.body, "__RequestVerificationToken"),
                                    pin |-> pin], s1.cookie), r2)
    IN  IF s1.kind = "threw" THEN SessionError("FETCH_ERROR", <<s1>>)
        ELSE IF s2.kind = "threw" THEN SessionError("FETCH_ERROR", <<s1, s2>>)
        ELSE IF s2.body = "" THEN SessionError("PARSE_ERROR", <<s1, s2>>)
        ELSE SessionOk(s2.body, <<s1, s2>>)

\* FetchCountyClerkAsync: GET / for the token, POST / with the token, the pin and
\* the Set-Cookie value of the first response when there is one; no status is
\* looked at, the body of the second response is cleaned and returned
CountyClerkSession(pin, r1, r2) ==
    LET s1 == Exchange(HttpRequest("GET", "clerk/", NoForm, ""), r1)
        s2 == Exchange(HttpRequest("POST", "clerk/",
                                   [token |-> ExtractFormValue(s1.body, "__RequestVerificationToken"),
                                    pin |-> pin], s1.cookie), r2)
    IN  IF s1.kind = "threw" THEN SessionError("FETCH_ERROR", <<s1>>)
        ELSE IF ~HasToken(s1.body) THEN SessionError("PARSE_ERROR", <<s1>>)
        ELSE IF s2.kind = "threw" THEN SessionError("FETCH_ERROR", <<s1, s2>>)
        ELSE IF s2.body = "" THEN SessionError("PARSE_ERROR", <<s1, s2>>)
        ELSE SessionOk(s2.body, <<s1, s2>>)

\* CleanRecorderHtml: the results container of a page of the recorder site, null
\* when the page has none
CleanRecorderHtml(body) == IF body \in {"h1", "form"} THEN body ELSE Null

\* GET {baseUrl}/Search/ResultByPin?id1={cleanPin}
ResultByPinRequest(pin) ==
    HttpRequest("GET", "recorder/Search/ResultByPin?id1=", [NoForm EXCEPT !.pin = StripDashes(pin)], "")

\* FetchRecorderDirectAsync: one GET, no status check
RecorderDirect(pin, r, steps) ==
    LET d == Exchange(ResultByPinRequest(pin), r)
    IN  IF d.kind = "threw" THEN SessionError("FETCH_ERROR", steps \o <<d>>)
        ELSE IF d.body = "" THEN SessionError("FETCH_ERROR", steps \o <<d>>)
        ELSE IF d.body = "nodocs" THEN SessionError("NOT_FOUND", steps \o <<d>>)
        ELSE IF CleanRecorderHtml(d.body) = Null THEN SessionError("PARSE_ERROR", steps \o <<d>>)
        ELSE SessionOk(CleanRecorderHtml(d.body), steps \o <<d>>)

\* the results of the address search carry a link to /Search/ResultByPin
HasResultByPinLink(addressHtml) == addressHtml = "h1"

\* FetchRecorderAsync with NOT_FOUND reported as soon as the address search has
\* no results
RecorderSession_earlyNotFound(pin, r1, r2, r3, rd) ==
    LET s1 == Exchange(HttpRequest("GET", "recorder/Search", NoForm, ""), r1)
        s2 == Exchange(HttpRequest("POST", "recorder/Search?strAction=Search",
                                   [token |-> ExtractFormValue(s1.body, "__RequestVerificationToken"),
                                    pin |-> pin], ""), r2)
        s3 == Exchange(ResultByPinRequest(pin), r3)
    IN  IF s1.kind = "threw" THEN SessionError("FETCH_ERROR", <<s1>>)
        ELSE IF ~IsSuccessStatusCode(s1) \/ ~HasToken(s1.body) THEN RecorderDirect(pin, rd, <<s1>>)
        ELSE IF s2.kind = "threw" THEN SessionError("FETCH_ERROR", <<s1, s2>>)
        ELSE IF ~IsSuccessStatusCode(s2) THEN RecorderDirect(pin, rd, <<s1, s2>>)
        ELSE IF ~HasResults(s2.body) THEN SessionError("NOT_FOUND", <<s1, s2>>)
        ELSE IF s3.kind = "threw" THEN SessionError("FETCH_ERROR", <<s1, s2, s3>>)
        ELSE LET hasDocuments == IsSuccessStatusCode(s3) /\ s3.body \notin {"", "nodocs"}
                 finalHtml == IF hasDocuments THEN CleanRecorderHtml(s3.body)
                              ELSE CleanRecorderHtml(s2.body)
             IN  IF finalHtml = Null THEN SessionError("PARSE_ERROR", <<s1, s2, s3>>)
                 ELSE SessionOk(finalHtml, <<s1, s2, s3>>)

\* FetchRecorderAsync: GET /Search, POST the address search, GET ResultByPin (the
\* link of the results, or the address built from the pin);
\* FetchRecorderDirectAsync when one of the first two steps is unusable
RecorderSession(pin, r1, r2, r3, rd) ==
    LET s1 == Exchange(HttpRequest("GET", "recorder/Search", NoForm, ""), r1)
        s2 == Exchange(HttpRequest("POST", "recorder/Search?strAction=Search",
                                   [token |-> ExtractFormValue(s1.body, "__RequestVerificationToken"),
                                    pin |-> pin], ""), r2)
        hasAddressResults == HasResults(s2.body)
        s3 == Exchange(IF hasAddressResults /\ HasResultByPinLink(s2.body)
                       THEN HttpRequest("GET", "recorder/link of the results", NoForm, "")
                       ELSE ResultByPinRequest(pin), r3)
    IN  IF s1.kind = "threw" THEN SessionError("FETCH_ERROR", <<s1>>)
        ELSE IF ~IsSuccessStatusCode(s1) \/ ~HasToken(s1.body) THEN RecorderDirect(pin, rd, <<s1>>)
        ELSE IF s2.kind = "threw" THEN SessionError("FETCH_ERROR", <<s1, s2>>)
        ELSE IF ~IsSuccessStatusCode(s2) THEN RecorderDirect(pin, rd, <<s1, s2>>)
        ELSE IF s3.kind = "threw" THEN SessionError("FETCH_ERROR", <<s1, s2, s3>>)
        ELSE LET hasDocuments == IsSuccessStatusCode(s3) /\ s3.body \notin {"", "nodocs"}
                 finalHtml == IF hasDocuments THEN CleanRecorderHtml(s3.body)
                              ELSE CleanRecorderHtml(s2.body)
             IN  IF ~hasDocuments /\ ~hasAddressResults
                 THEN SessionError("NOT_FOUND", <<s1, s2, s3>>)
                 ELSE IF finalHtml = Null THEN SessionError("PARSE_ERROR", <<s1, s2, s3>>)
                 ELSE SessionOk(finalHtml, <<s1, s2, s3>>)

\* a Fetch*Async call whose upstream fetch is the session outcome site
SessionCall(op, pin, site) ==
    /\ Finish(op, pin, FetchAsync(memCache, op, pin, site))
    /\ session' = IF ValidatePin(pin) /\ ~TryGetValue(memCache, FetchCacheKey(op, pin), "string")
                  THEN site.steps ELSE << >>

\* GET /api/CookCounty/tax-portal
CallTaxPortal(pin, s1, s2, fb) ==
    /\ call = NoCall
    /\ SessionCall("FetchTaxPortalAsync", pin, TaxPortalSession(pin, s1, s2, fb))

\* GET /api/CookCounty/county-clerk
CallCountyClerk(pin, s1, s2) ==
    /\ call = NoCall
    /\ SessionCall("FetchCountyClerkAsync", pin, CountyClerkSession(pin, s1, s2))

\* GET /api/CookCounty/recorder
CallRecorder(pin, s1, s2, s3, d) ==
    /\ call = NoCall
    /\ SessionCall("FetchRecorderAsync", pin, RecorderSession(pin, s1, s2, s3, d))

\* the pages of the specification of the structured-data operations
StructuredSites == {SiteOk("h1"), SiteOk("unparsable"), SiteDown}

InitSession == session = << >>

-----------------------------------------------------------------------------
(* The import worker: fetchAllSourcesForPin *)

\* what proxyToDoNet is answered for a source of the fan-out
FanOutcomes == {UpOk("d1"), UpSourceError, Threw}
FanPinInputs == {PinA}
\* err.message of a cache write the database rejected
DbErrorMessage == "Connection terminated unexpectedly"

\* one callback of sources.map: awaiting the proxy, awaiting the cache write of
\* fetchAndCacheSource, awaiting the cache write of the catch block, resolved,
\* or rejected
IdleSlot == [pc |-> "idle", w |-> NoWrite]
NoFan == [state |-> "idle", pin |-> PinMissing, slot |-> [s \in SOURCES |-> IdleSlot],
          errors |-> {}, success |-> FALSE]

\* fetchAllSourcesForPin(pin, cacheWriter) is called: sources.map starts the four
\* callbacks, each of which calls proxyToDoNet.
FanStart(pin) ==
    /\ fan.state = "idle"
    /\ fan' = [NoFan EXCEPT !.state = "running", !.pin = pin,
                            !.slot = [s \in SOURCES |-> [IdleSlot EXCEPT !.pc = "proxy"]]]
    /\ UNCHANGED <<now, ticks, cleared, session, job>>
    /\ UNCHANGED frontVars
    /\ UNCHANGED expressVars
    /\ UNCHANGED dotnetVars

\* proxyToDoNet returns for one source: fetchAndCacheSource calls the cacheWriter
\* with the payload or with the error, and awaits it.
FanProxyReturns(source, outcome) ==
    /\ fan.slot[source].pc = "proxy"
    /\ fan' = [fan EXCEPT !.slot[source] =
                   [pc |-> "write", w |-> fetchAndCacheSource(fan.pin, source, proxyToDoNet(outcome))]]
    /\ UNCHANGED <<now, ticks, cleared, session, job>>
    /\ UNCHANGED frontVars
    /\ UNCHANGED expressVars
    /\ UNCHANGED dotnetVars

\* The awaited cache write of a source is executed: its callback resolves.
FanWriteDone(source) ==
    /\ fan.slot[source].pc \in {"write", "rewrite"}
    /\ table' = ExecUpsert(table, fan.slot[source].w)
    /\ fan' = [fan EXCEPT !.slot[source].pc = "settled"]
    /\ UNCHANGED <<now, ticks, cleared, session, job>>
    /\ UNCHANGED frontVars
    /\ UNCHANGED <<pending, lastDone, justDone, req, imp>>
    /\ UNCHANGED dotnetVars

\* The awaited cache write of a source is rejected. From fetchAndCacheSource the
\* exception reaches the catch block: errors.push and a second cacheWriter call
\* with err.message; from the catch block it rejects the callback.
FanWriteFails(source) ==
    /\ fan.slot[source].pc \in {"write", "rewrite"}
    /\ IF fan.slot[source].pc = "write"
       THEN fan' = [fan EXCEPT !.errors = @ \cup {source},
                               !.slot[source] =
                                   [pc |-> "rewrite",
                                    w |-> setCachedDataImport(fan.pin, source, Null, DbErrorMessage)]]
       ELSE fan' = [fan EXCEPT !.slot[source].pc = "rejected"]
    /\ UNCHANGED <<now, ticks, cleared, session, job>>
    /\ UNCHANGED frontVars
    /\ UNCHANGED expressVars
    /\ UNCHANGED dotnetVars

\* await Promise.all(...): rejects as soon as one callback has rejected (the call
\* throws), resolves when all four have resolved (the call returns).
FanSettle ==
    /\ fan.state = "running"
    /\ IF \E s \in SOURCES : fan.slot[s].pc = "rejected"
       THEN fan' = [fan EXCEPT !.state = "threw"]
       ELSE /\ \A s \in SOURCES : fan.slot[s].pc = "settled"
            /\ fan' = [fan EXCEPT !.state = "returned", !.success = (fan.errors = {})]
    /\ UNCHANGED <<now, ticks, cleared, session, job>>
    /\ UNCHANGED frontVars
    /\ UNCHANGED expressVars
    /\ UNCHANGED dotnetVars

-----------------------------------------------------------------------------
(* The import worker: createImportJob and processImportJob over import_pins *)

BATCH_SIZE == 5

\* how often the server process is restarted while the job runs
MaxRestarts == 1

\* the pins of the job, by their place in the pins array given to createImportJob
Positions == 1..MaxJobPins

\* import_pins.id is gen_random_uuid(): the order of the ids of the inserted rows
\* is any order; here the submission order and its reverse (place -> rank of id)
IdOrderInputs == {[i \in Positions |-> i], [i \in Positions |-> MaxJobPins + 1 - i]}

\* result.errors of fetchAllSourcesForPin: empty, 1..3 entries, 4 entries; or the
\* call throws
FanResults == {"none", "some", "all", "throws"}

NoJob == [state |-> "none", rank |-> [i \in Positions |-> i],
          status |-> [i \in Positions |-> "pending"],
          pc |-> [i \in Positions |-> "none"],
          batchOf |-> [i \in Positions |-> 0], round |-> 0,
          active |-> FALSE, full |-> FALSE, crashes |-> 0,
          totalPins |-> 0, completedPins |-> 0, failedPins |-> 0]

InFlight(j) == {i \in Positions : j.pc[i] \in {"start", "fetch", "catch"}}

\* getPendingPinsForJob(jobId, limit): the pending rows of the job, ordered by id,
\* the first limit of them
getPendingPinsForJob(j, limit) ==
    LET pend == {i \in Positions : j.status[i] = "pending"}
    IN  {i \in pend : Cardinality({k \in pend : j.rank[k] < j.rank[i]}) < limit}

\* updateImportJobCounts(jobId): completedPins and failedPins are set to the number
\* of rows of the job with status complete and with status error.
updateImportJobCounts(j) ==
    [j EXCEPT !.completedPins = Cardinality({i \in Positions : j.status[i] = "complete"}),
              !.failedPins = Cardinality({i \in Positions : j.status[i] = "error"})]

\* POST /api/import/upload: createImportJob inserts the rows (status pending),
\* processImportJob sets the job to processing.
CreateImportJob(order) ==
    /\ job.state = "none"
    /\ job' = [NoJob EXCEPT !.state = "processing", !.rank = order, !.active = TRUE,
                            !.totalPins = Cardinality(Positions)]
    /\ UNCHANGED <<now, ticks, cleared, session, fan>>
    /\ UNCHANGED frontVars
    /\ UNCHANGED expressVars
    /\ UNCHANGED dotnetVars

\* The while loop of processImportJob reads the next batch and starts a callback
\* for each of its pins; after a batch of BATCH_SIZE pins the loop first waits
\* for the timer of DELAY_BETWEEN_BATCHES_MS (Pause).
TakeBatch ==
    /\ job.state = "processing"
    /\ job.active
    /\ ~job.full
    /\ InFlight(job) = {}
    /\ LET pendingPins == getPendingPinsForJob(job, BATCH_SIZE)
       IN  /\ pendingPins # {}
           /\ job' = [job EXCEPT !.round = @ + 1,
                                  !.full = Cardinality(pendingPins) = BATCH_SIZE,
                                  !.pc = [i \in Positions |-> IF i \in pendingPins THEN "start" ELSE @[i]],
                                  !.batchOf = [i \in Positions |->
                                                  IF i \in pendingPins THEN job.round + 1 ELSE @[i]]]
    /\ UNCHANGED <<now, ticks, cleared, session, fan>>
    /\ UNCHANGED frontVars
    /\ UNCHANGED expressVars
    /\ UNCHANGED dotnetVars

\* Promise.all of a batch of BATCH_SIZE pins has resolved: the loop updates the
\* counts and waits DELAY_BETWEEN_BATCHES_MS before it reads the next batch.
Pause ==
    /\ job.state = "processing"
    /\ job.active
    /\ job.full
    /\ InFlight(job) = {}
    /\ job' = [updateImportJobCounts(job) EXCEPT !.full = FALSE]
    /\ UNCHANGED <<now, ticks, cleared, session, fan>>
    /\ UNCHANGED frontVars
    /\ UNCHANGED expressVars
    /\ UNCHANGED dotnetVars

\* No pending pin is left: the counts are updated and the job is complete.
JobEnds ==
    /\ job.state = "processing"
    /\ job.active
    /\ ~job.full
    /\ InFlight(job) = {}
    /\ getPendingPinsForJob(job, BATCH_SIZE) = {}
    /\ job' = [updateImportJobCounts(job) EXCEPT !.state = "complete", !.active = FALSE]
    /\ UNCHANGED <<now, ticks, cleared, session, fan>>
    /\ UNCHANGED frontVars
    /\ UNCHANGED expressVars
    /\ UNCHANGED dotnetVars

\* updateImportPinStatus(id, "fetching") of a callback: executed, or rejected by
\* the database (the exception reaches the catch block of the callback).
MarkFetching(p, ok) ==
    /\ job.pc[p] = "start"
    /\ job' = IF ok THEN [job EXCEPT !.status[p] = "fetching", !.pc[p] = "fetch"]
               ELSE [job EXCEPT !.pc[p] = "catch"]
    /\ UNCHANGED <<now, ticks, cleared, session, fan>>
    /\ UNCHANGED frontVars
    /\ UNCHANGED expressVars
    /\ UNCHANGED dotnetVars

\* fetchAllSourcesForPin has ended for a pin: the status update that follows its
\* result (complete with fewer than 4 errors, error with 4), executed or rejected;
\* a thrown call and a rejected update reach the catch block.
FetchAllDone(p, result, ok) ==
    /\ job.pc[p] = "fetch"
    /\ job' = IF result = "throws" \/ ~ok THEN [job EXCEPT !.pc[p] = "catch"]
               ELSE [job EXCEPT !.pc[p] = "done",
                                !.status[p] = IF result = "all" THEN "error" ELSE "complete"]
    /\ UNCHANGED <<now, ticks, cleared, session, fan>>
    /\ UNCHANGED frontVars
    /\ UNCHANGED expressVars
    /\ UNCHANGED dotnetVars

\* The catch block of a callback: updateImportPinStatus(id, "error", err.message).
\* When that is rejected too, Promise.all rejects and the catch block of
\* processImportJob calls updateImportJobStatus(jobId, "error"), which is executed
\* (jobOk) or rejected as well; finally removes the job from activeJobs.
CatchUpdate(p, ok, jobOk) ==
    /\ job.pc[p] = "catch"
    /\ job' = IF ok THEN [job EXCEPT !.pc[p] = "done", !.status[p] = "error"]
               ELSE [job EXCEPT !.pc[p] = "done",
                                !.state = IF @ = "processing" /\ jobOk THEN "error" ELSE @,
                                !.active = FALSE]
    /\ UNCHANGED <<now, ticks, cleared, session, fan>>
    /\ UNCHANGED frontVars
    /\ UNCHANGED expressVars
    /\ UNCHANGED dotnetVars

\* The server process stops while the job is running and is started again: the
\* callbacks in flight and activeJobs are gone, the rows of import_jobs and
\* import_pins stay as they were.
Restart ==
    /\ job.active
    /\ job.crashes < MaxRestarts
    /\ job' = [job EXCEPT !.active = FALSE, !.full = FALSE, !.crashes = @ + 1,
                           !.pc = [i \in Positions |-> IF i \in InFlight(job) THEN "lost" ELSE @[i]]]
    /\ UNCHANGED <<now, ticks, cleared, session, fan>>
    /\ UNCHANGED frontVars
    /\ UNCHANGED expressVars
    /\ UNCHANGED dotnetVars

\* recoverStuckJobs, five seconds after the start: a job still in processing
\* that is not in activeJobs is processed again when it has a pending pin, and
\* is set to complete otherwise.
recoverStuckJobs ==
    /\ job.state = "processing"
    /\ ~job.active
    /\ job' = IF getPendingPinsForJob(job, 1) # {}
               THEN [job EXCEPT !.active = TRUE]
               ELSE [updateImportJobCounts(job) EXCEPT !.state = "complete"]
    /\ UNCHANGED <<now, ticks, cleared, session, fan>>
    /\ UNCHANGED frontVars
    /\ UNCHANGED expressVars
    /\ UNCHANGED dotnetVars

InitImport == fan = NoFan /\ job = NoJob

-----------------------------------------------------------------------------
(* PUT /api/pins/:pin/bids and the pin_bids table *)

\* JSON values of the request body: [t |-> kind, s |-> the characters of a string];
\* JsonAbsent is a field the body does not have (undefined)
JsonAbsent == [t |-> "undefined", s |-> << >>]
JsonNull == [t |-> "null", s |-> << >>]
JsonString(s) == [t |-> "string", s |-> s]
JsonEmptyArray == [t |-> "array", s |-> << >>]
JsonTrue == [t |-> "true", s |-> << >>]

\* null in a text column of pin_bids and in the answer
SqlNull == <<"null">>

BidInputs ==
    {JsonAbsent, JsonNull, JsonString(<< >>), JsonString(<<"1","0",".","5","0">>),
     JsonString(<<"-","5">>), JsonString(<<"a","b","c">>), JsonString(<<" ">>),
     JsonString(<<"0","x","1","F">>), JsonEmptyArray, JsonTrue}
BidPinInputs == {PinA, PinShort}

\* String(value) of JavaScript
JS_String(v) ==
    CASE v.t = "string" -> v.s
      [] v.t = "array" -> << >>
      [] v.t = "true" -> <<"t","r","u","e">>
      [] v.t = "null" -> <<"n","u","l","l">>
      [] OTHER -> <<"u","n","d","e","f","i","n","e","d">>

AllIn(s, S) == \A i \in 1..Len(s) : s[i] \in S
DecimalDigits(s) == Len(s) > 0 /\ AllIn(s, Digits)
HexDigits == Digits \cup {"a", "b", "c", "d", "e", "f", "A", "B", "C", "D", "E", "F"}
StrWhiteSpaceChar == {" ", "\t", "\n"}

ExponentPart(s) ==
    /\ Len(s) >= 2
    /\ s[1] \in {"e", "E"}
    /\ IF s[2] \in {"+", "-"} THEN DecimalDigits(SubSeq(s, 3, Len(s)))
                               ELSE DecimalDigits(Tail(s))

\* StrUnsignedDecimalLiteral of the StringToNumber grammar
StrUnsignedDecimalLiteral(s) ==
    \/ s = <<"I","n","f","i","n","i","t","y">>
    \/ \E i \in 0..Len(s), j \in 0..Len(s) :
          /\ i <= j
          /\ LET int == SubSeq(s, 1, i)
                 frac == SubSeq(s, i + 1, j)
                 exp == SubSeq(s, j + 1, Len(s))
             IN  /\ exp = << >> \/ ExponentPart(exp)
                 /\ \/ DecimalDigits(int) /\ frac = << >>
                    \/ /\ DecimalDigits(int)
                       /\ Len(frac) >= 1
                       /\ frac[1] = "."
                       /\ Len(frac) = 1 \/ DecimalDigits(Tail(frac))
                    \/ /\ int = << >>
                       /\ Len(frac) >= 2
                       /\ frac[1] = "."
                       /\ DecimalDigits(Tail(frac))

\* StrNumericLiteral: a signed decimal literal or an unsigned 0x / 0o / 0b literal
StrNumericLiteral(s) ==
    \/ StrUnsignedDecimalLiteral(s)
    \/ Len(s) >= 1 /\ s[1] \in {"+", "-"} /\ StrUnsignedDecimalLiteral(Tail(s))
    \/ /\ Len(s) >= 3
       /\ s[1] = "0"
       /\ \/ s[2] \in {"x", "X"} /\ AllIn(SubSeq(s, 3, Len(s)), HexDigits)
          \/ s[2] \in {"o", "O"} /\ AllIn(SubSeq(s, 3, Len(s)), {"0","1","2","3","4","5","6","7"})
          \/ s[2] \in {"b", "B"} /\ AllIn(SubSeq(s, 3, Len(s)), {"0", "1"})

\* the string without its leading and trailing white space
Trim(s) ==
    LET keep == {i \in 1..Len(s) : s[i] \notin StrWhiteSpaceChar}
    IN  IF keep = {} THEN << >>
        ELSE SubSeq(s, CHOOSE i \in keep : \A k \in keep : i <= k,
                       CHOOSE i \in keep : \A k \in keep : i >= k)

\* isNaN(Number(s)) for a string s: Number gives NaN exactly when the trimmed
\* string is neither empty nor a StrNumericLiteral
isNaN_Number(s) ==
    LET t == Trim(s) IN ~(t = << >> \/ StrNumericLiteral(t))

\* bid != null && bid !== "" ? String(bid) : null
BidVal(v) ==
    IF v.t \notin {"undefined", "null"} /\ v # JsonString(<< >>) THEN JS_String(v) ELSE SqlNull

NoBidRow == [exists |-> FALSE, bid |-> SqlNull, overbid |-> SqlNull]
NoBidAnswer == [status |-> 0, pin |-> PinMissing, bid |-> JsonAbsent, overbid |-> JsonAbsent,
                data |-> NoBidRow]

\* storage.upsertPinBids: INSERT ... ON CONFLICT (pin) DO UPDATE SET bid, overbid
upsertPinBids(rows, pin, bid, overbid) ==
    [rows EXCEPT ![pin] = [exists |-> TRUE, bid |-> bid, overbid |-> overbid]]

\* One PUT /api/pins/:pin/bids, from the request to the answer.
PutBids(pin, bid, overbid, dbOk) ==
    LET bidVal == BidVal(bid)
        overbidVal == BidVal(overbid)
        answer(status, data) ==
            [status |-> status, pin |-> pin, bid |-> bid, overbid |-> overbid, data |-> data]
    IN  /\ bids' =
              IF ~PIN_REGEX_test(pin) THEN [bids EXCEPT !.res = answer(400, NoBidRow)]
              ELSE IF bidVal # SqlNull /\ isNaN_Number(bidVal)
                   THEN [bids EXCEPT !.res = answer(400, NoBidRow)]
              ELSE IF overbidVal # SqlNull /\ isNaN_Number(overbidVal)
                   THEN [bids EXCEPT !.res = answer(400, NoBidRow)]
              ELSE IF ~dbOk THEN [bids EXCEPT !.res = answer(500, NoBidRow)]
              ELSE LET rows == upsertPinBids(bids.rows, pin, bidVal, overbidVal)
                   IN  [rows |-> rows, res |-> answer(200, rows[pin])]
        /\ UNCHANGED serverVars
        /\ UNCHANGED otherThanBids

InitBids == bids = [rows |-> [p \in {PinA} |-> NoBidRow], res |-> NoBidAnswer]

-----------------------------------------------------------------------------
(* A request on its way: browser -> Express -> .NET -> source site *)

\* requests in flight at once
MaxRequests == 3
Requests == 1..MaxRequests

NoWire == [client |-> "none", proxy |-> "none", site |-> "none"]

\* The browser sends a source request that is not served from property_cache:
\* handleCachedEndpoint awaits proxyToDoNet, whose fetch has no signal.
ClientRequests(r) ==
    /\ wire[r].client = "none"
    /\ wire' = [wire EXCEPT ![r] = [client |-> "waiting", proxy |-> "inflight", site |-> "none"]]
    /\ UNCHANGED serverVars
    /\ UNCHANGED otherThanWire

\* The controller action awaits the service, which sends its request to the site
\* (GetAsync / PostAsync / SendAsync without a CancellationToken).
DotNetCallsSite(r) ==
    /\ wire[r].proxy = "inflight"
    /\ wire[r].site = "none"
    /\ wire' = [wire EXCEPT ![r].site = "inflight"]
    /\ UNCHANGED serverVars
    /\ UNCHANGED otherThanWire

\* The site has answered and the controller returns its result to the proxy.
SiteAnswers(r) ==
    /\ wire[r].site = "inflight"
    /\ wire' = [wire EXCEPT ![r].site = "returned"]
    /\ UNCHANGED serverVars
    /\ UNCHANGED otherThanWire

\* proxyToDoNet returns; the handler answers the client when it still listens.
DotNetAnswers(r) ==
    /\ wire[r].proxy = "inflight"
    /\ wire[r].site = "returned"
    /\ wire' = [wire EXCEPT ![r].proxy = "returned",
                            ![r].client = IF @ = "waiting" THEN "answered" ELSE @]
    /\ UNCHANGED serverVars
    /\ UNCHANGED otherThanWire

\* The client cancels its request (AbortController.abort() of the drawer, a
\* closed connection). No handler of the Express tier listens for it, the fetch
\* of proxyToDoNet has no signal and the controller actions take no token.
ClientCancels(r) ==
    /\ wire[r].client = "waiting"
    /\ wire' = [wire EXCEPT ![r].client = "cancelled"]
    /\ UNCHANGED serverVars
    /\ UNCHANGED otherThanWire

\* The request is over on every tier.
WireEnds(r) ==
    /\ wire[r].proxy = "returned"
    /\ wire' = [wire EXCEPT ![r] = NoWire]
    /\ UNCHANGED serverVars
    /\ UNCHANGED otherThanWire

InitWire == wire = [r \in Requests |-> NoWire]

-----------------------------------------------------------------------------
(* property-drawer.js in drawer mode *)

\* calls of open() and of close() in a run
MaxOpens == 3
MaxCloses == 2

DrawerPinInputs == {PinA, PinB, PinShort}
\* the sources fetchAllSources asks for (two of the four)
DrawerSources == {"tax-portal-data", "clerk-data"}

NoPin == <<"null">>
NoTimer == 0
\* the container element without children
EmptyContainer == [pin |-> NoPin, elem |-> 0, open |-> FALSE]
NoRender == [kind |-> "none", pin |-> NoPin, by |-> 0]

\* /^\d{2}-\d{2}-\d{3}-\d{3}-\d{4}$/.test(pin)
validatePin(pin) == PIN_REGEX_test(pin)

\* openDrawer(pin): the tracked close timer is cleared; a drawer that has the
\* class open gets the new content in place, otherwise the container gets a new
\* drawer and a 10 ms timer that adds the class open to it.
openDrawer(d, pin, no) ==
    LET t == [d EXCEPT !.closeTimers = @ \ {d.closeTimer}, !.closeTimer = NoTimer]
    IN  IF t.dom # EmptyContainer /\ t.dom.open
        THEN [t EXCEPT !.dom.pin = pin]
        ELSE [t EXCEPT !.dom = [pin |-> pin, elem |-> no, open |-> FALSE],
                       !.openTimers = @ \cup {no}]

\* open(pin): invalid pins return early; the requests of the previous
\* AbortController are aborted (their promises reject with AbortError, which
\* fetchSource drops), the drawer is shown, and fetchAllSources and loadBids send
\* their requests; loadBids has no signal.
open(pin) ==
    /\ drawer.opens < MaxOpens
    /\ drawer' =
          IF ~validatePin(pin) THEN [drawer EXCEPT !.rendered = NoRender]
          ELSE LET no == drawer.opens + 1
                   shown == openDrawer(drawer, pin, no)
               IN  [shown EXCEPT
                       !.currentPin = pin,
                       !.abortController = no,
                       !.opens = no,
                       !.opened = Append(@, pin),
                       !.rendered = NoRender,
                       !.inflight = {q \in @ : q.kind = "bids"}
                                    \cup {[kind |-> s, pin |-> pin, by |-> no, closes |-> drawer.closes] : s \in DrawerSources}
                                    \cup {[kind |-> "bids", pin |-> pin, by |-> no, closes |-> drawer.closes]}]
    /\ UNCHANGED serverVars
    /\ UNCHANGED otherThanDrawer

\* close() in drawer mode: a drawer in the container loses the class open and a
\* 350 ms timer is set and stored in state.closeTimer; the requests of the
\* AbortController are aborted; currentPin becomes null.
close ==
    /\ drawer.closes < MaxCloses
    /\ LET no == drawer.closes + 1
           hasDrawer == drawer.dom # EmptyContainer
       IN  drawer' = [drawer EXCEPT
                         !.dom.open = FALSE,
                         !.closeTimers = IF hasDrawer THEN @ \cup {no} ELSE @,
                         !.closeTimer = IF hasDrawer THEN no ELSE @,
                         !.inflight = IF drawer.abortController # 0
                                      THEN {q \in @ : q.kind = "bids"} ELSE @,
                         !.abortController = 0,
                         !.currentPin = NoPin,
                         !.closes = no,
                         !.rendered = NoRender]
    /\ UNCHANGED serverVars
    /\ UNCHANGED otherThanDrawer

\* The 350 ms timer of a close() fires: the container is emptied and
\* state.closeTimer is set to null.
CloseTimerFires(t) ==
    /\ t \in drawer.closeTimers
    /\ drawer' = [drawer EXCEPT !.dom = EmptyContainer,
                                !.closeTimer = NoTimer,
                                !.closeTimers = @ \ {t},
                                !.emptiedBy = t,
                                !.rendered = NoRender]
    /\ UNCHANGED serverVars
    /\ UNCHANGED otherThanDrawer

\* The 10 ms timer of openDrawer fires: its drawer element gets the class open
\* (an element no longer in the container is not seen again).
OpenTimerFires(t) ==
    /\ t \in drawer.openTimers
    /\ drawer' = [drawer EXCEPT !.openTimers = @ \ {t},
                                !.dom.open = IF drawer.dom.elem = t THEN TRUE ELSE @,
                                !.rendered = NoRender]
    /\ UNCHANGED serverVars
    /\ UNCHANGED otherThanDrawer

\* The response of a fetchSource request arrives: onSuccess or onError renders it.
SourceResponds(q) ==
    /\ q \in drawer.inflight
    /\ q.kind \in DrawerSources
    /\ drawer' = [drawer EXCEPT !.inflight = @ \ {q}, !.rendered = q]
    /\ UNCHANGED serverVars
    /\ UNCHANGED otherThanDrawer

\* The response of a loadBids request arrives: the inputs are filled when
\* json.success && state.currentPin === pin.
BidsResponds(q, success) ==
    /\ q \in drawer.inflight
    /\ q.kind = "bids"
    /\ drawer' = [drawer EXCEPT !.inflight = @ \ {q},
                                !.rendered = IF success /\ drawer.currentPin = q.pin
                                             THEN q ELSE NoRender]
    /\ UNCHANGED serverVars
    /\ UNCHANGED otherThanDrawer

InitDrawer ==
    drawer = [currentPin |-> NoPin, abortController |-> 0, closeTimer |-> NoTimer,
              dom |-> EmptyContainer, closeTimers |-> {}, openTimers |-> {},
              inflight |-> {}, opens |-> 0, opened |-> << >>, closes |-> 0,
              emptiedBy |-> NoTimer,
              rendered |-> NoRender]

-----------------------------------------------------------------------------
(* db.ts: fetchTaxDelinquent and its NodeCache *)

\* new NodeCache({ stdTTL: 300 }), in ms
stdTTL == 300 * 1000

LegacyPinInputs == {PinA, PinB, PinShort}
NoLegacyResult == [pin |-> PinMissing, success |-> FALSE, code |-> Null, html |-> Null,
                   statusCode |-> 0, hit |-> FALSE]

\* cache.get(key): the value of a live entry, undefined otherwise
NodeCache_get(cache, pin) ==
    IF pin \in DOMAIN cache /\ cache[pin] # NoEntry /\ now < cache[pin].expiresAt
    THEN cache[pin].value ELSE Null

\* error(message, code, statusCode)
LegacyError(pin, code, statusCode) ==
    [NoLegacyResult EXCEPT !.pin = pin, !.code = code, !.statusCode = statusCode]

\* fetchTaxDelinquent(pin): the PIN check, the cache, GET / for the token, POST /
\* with the token, the pin and the set-cookie value, cache.set of the cleaned page
fetchTaxDelinquent(pin, r1, r2) ==
    LET cached == NodeCache_get(legacy.cache, pin)
        s1 == Exchange(HttpRequest("GET", "clerk/", NoForm, ""), r1)
        token == ExtractFormValue(s1.body, "__RequestVerificationToken")
        s2 == Exchange(HttpRequest("POST", "clerk/", [token |-> token, pin |-> pin], s1.cookie), r2)
        done(res, steps) == [legacy EXCEPT !.res = res, !.steps = steps]
    IN  IF pin = PinMissing \/ Len(pin) = 0 \/ ~PIN_REGEX_test(pin)
        THEN done(LegacyError(pin, "INVALID_PIN", 400), << >>)
        ELSE IF cached \notin {Null, ""}
        THEN done([NoLegacyResult EXCEPT !.pin = pin, !.success = TRUE, !.html = cached,
                                         !.statusCode = 200, !.hit = TRUE], << >>)
        ELSE IF s1.kind = "threw" THEN done(LegacyError(pin, "FETCH_ERROR", 502), <<s1>>)
        ELSE IF token = Null THEN done(LegacyError(pin, "PARSE_ERROR", 502), <<s1>>)
        ELSE IF s2.kind = "threw" THEN done(LegacyError(pin, "FETCH_ERROR", 502), <<s1, s2>>)
        ELSE [cache |-> [legacy.cache EXCEPT ![pin] = [value |-> s2.body, expiresAt |-> now + stdTTL]],
              res |-> [NoLegacyResult EXCEPT !.pin = pin, !.success = TRUE, !.html = s2.body,
                                             !.statusCode = 200],
              steps |-> <<s1, s2>>]

\* one call of fetchTaxDelinquent
CallFetchTaxDelinquent(pin, r1, r2) ==
    /\ legacy' = fetchTaxDelinquent(pin, r1, r2)
    /\ UNCHANGED serverVars
    /\ UNCHANGED otherThanLegacy

InitLegacy ==
    legacy = [cache |-> [p \in ValidPins |-> NoEntry], res |-> NoLegacyResult, steps |-> << >>]

-----------------------------------------------------------------------------
(* Requests to GET /api/CookCounty/tax-portal that the .NET API serves at once *)

BurstPinInputs == {PinA, PinShort}
BurstSites == {SiteOk("h1"), SiteDown}
NoBurst == [pc |-> "idle", pin |-> PinMissing, hit |-> FALSE, success |-> FALSE]

\* A request arrives: FetchTaxPortalAsync runs up to its first await, the GET of
\* the landing page (ValidatePin, then the cache check).
BurstArrives(r, pin) ==
    /\ burst[r].pc = "idle"
    /\ burst' = [burst EXCEPT ![r] =
                    IF ~ValidatePin(pin) THEN [NoBurst EXCEPT !.pc = "done", !.pin = pin]
                    ELSE IF TryGetValue(memCache, FetchCacheKey("FetchTaxPortalAsync", pin), "string")
                    THEN [pc |-> "done", pin |-> pin, hit |-> TRUE, success |-> TRUE]
                    ELSE [NoBurst EXCEPT !.pc = "upstream", !.pin = pin]]
    /\ UNCHANGED serverVars
    /\ UNCHANGED otherThanBurst

\* The session of a request ends: _cache.Set on success, an error otherwise.
BurstSessionEnds(r, site) ==
    /\ burst[r].pc = "upstream"
    /\ burst' = [burst EXCEPT ![r].pc = "done", ![r].success = site.ok]
    /\ memCache' = IF site.ok
                   THEN CacheSet(memCache, FetchCacheKey("FetchTaxPortalAsync", burst[r].pin),
                                 "string", [html |-> site.html, error |-> Null])
                   ELSE memCache
    /\ UNCHANGED <<now, ticks, call, lastSet, cleared, session>>
    /\ UNCHANGED expressVars
    /\ UNCHANGED importVars
    /\ UNCHANGED otherThanBurst

\* The controller has answered the request.
BurstReturns(r) ==
    /\ burst[r].pc = "done"
    /\ burst' = [burst EXCEPT ![r] = NoBurst]
    /\ UNCHANGED serverVars
    /\ UNCHANGED otherThanBurst

InitBurst == burst = [r \in Requests |-> NoBurst]

-----------------------------------------------------------------------------
(* Upstream calls and the timeouts the code puts on them *)

\* The per-source fetch operations, by the place that makes the HTTP call.
UpstreamCalls ==
    {"proxyToDoNet", "FetchTaxPortalAsync", "FetchCountyClerkAsync",
     "FetchRecorderAsync", "FetchCookViewerMapAsync"}

NoTimeout == [set |-> FALSE, seconds |-> 0]
TimeSpan_FromSeconds(s) == [set |-> TRUE, seconds |-> s]

\* The timeout the code gives the client of each call: the named clients of
\* Program.cs, client.Timeout of FetchRecorderAsync, and nothing for the
\* HttpClient FetchTaxPortalAsync constructs and for fetch() of proxyToDoNet.
Timeout(c) ==
    CASE c = "FetchCountyClerkAsync" -> TimeSpan_FromSeconds(30)
      [] c = "FetchRecorderAsync" -> TimeSpan_FromSeconds(30)
      [] c = "FetchCookViewerMapAsync" -> TimeSpan_FromSeconds(20)
      [] c = "FetchTaxPortalAsync" -> NoTimeout
      [] c = "proxyToDoNet" -> NoTimeout

\* What the catch block of the call site answers.
FailureCode(c) == IF c = "proxyToDoNet" THEN "DOTNET_UNAVAILABLE" ELSE "FETCH_ERROR"

IdleCall == [pc |-> "idle", answers |-> FALSE, result |-> "none"]

\* The operation sends its request; the upstream is one that answers or one that
\* never does.
StartsCall(c, answers) ==
    /\ upcall[c].pc # "waiting"
    /\ upcall' = [upcall EXCEPT ![c] = [pc |-> "waiting", answers |-> answers, result |-> "none"]]
    /\ UNCHANGED serverVars
    /\ UNCHANGED otherThanUpcall

\* The upstream answers and the operation completes with what it got.
UpstreamResponds(c) ==
    /\ upcall[c].pc = "waiting"
    /\ upcall[c].answers
    /\ upcall' = [upcall EXCEPT ![c].pc = "done", ![c].result = "ok"]
    /\ UNCHANGED serverVars
    /\ UNCHANGED otherThanUpcall

\* The timeout of the client elapses: the awaited call throws and the catch
\* block of the operation answers the failure.
TimeoutElapses(c) ==
    /\ upcall[c].pc = "waiting"
    /\ Timeout(c).set
    /\ upcall' = [upcall EXCEPT ![c].pc = "done", ![c].result = FailureCode(c)]
    /\ UNCHANGED serverVars
    /\ UNCHANGED otherThanUpcall

InitUpstream == upcall = [c \in UpstreamCalls |-> IdleCall]

-----------------------------------------------------------------------------
(* HTML parsers of the .NET API: the recorder results table *)

\* A td of the results table, as far as the parsers look into it: the inner text
\* of its first span and of its first link, Null where there is no such node.
HtmlCell(span, a) == [span |-> span, a |-> a]
BlankCell == HtmlCell(Null, Null)

\* A tr with n cells that holds the given texts in the cells of the document
\* number (index 2), the document type (5), the grantor (6) and the grantee (7).
TableRow(n, docNum, docType, grantor, grantee) ==
    [i \in 1..n |->
        CASE i = 3 -> HtmlCell(docNum, Null)
          [] i = 6 -> HtmlCell(docType, Null)
          [] i = 7 -> HtmlCell(Null, grantor)
          [] i = 8 -> HtmlCell(Null, grantee)
          [] OTHER -> BlankCell]

CellCountInputs == {4, 5, 6, 9, 10}
RowInputs ==
    {TableRow(n, "D1", "DEED", "G1", "G2") : n \in CellCountInputs}
        \cup {TableRow(n, Null, "DEED", "G1", "G2") : n \in {6, 10}}
        \cup {TableRow(n, " D2 ", " ", "G1", "G2") : n \in {6, 10}}
        \cup {TableRow(n, "", "DEED", Null, Null) : n \in {6, 10}}

\* What SelectNodes and SelectSingleNode answer: null, or the nodes found.
\* thead: the number of th nodes and whether one of them names both PIN and
\* Address.
NoHeaders == [isNull |-> TRUE, Count |-> 0, addressSearch |-> FALSE]
HeaderInputs ==
    {NoHeaders} \cup {[isNull |-> FALSE, Count |-> n, addressSearch |-> FALSE] : n \in {6, 8, 9, 10}}
                \cup {[isNull |-> FALSE, Count |-> 3, addressSearch |-> TRUE]}

\* tbody: its tr nodes
NoRows == [isNull |-> TRUE, trs |-> <<>>]
RowsInputs ==
    {NoRows} \cup {[isNull |-> FALSE, trs |-> <<r>>] : r \in RowInputs}
             \cup {[isNull |-> FALSE, trs |-> <<r1, r2>>] : r1, r2 \in RowInputs}

NoTable == [isNull |-> TRUE, headers |-> NoHeaders, rows |-> NoRows]
TableInputs ==
    {NoTable} \cup {[isNull |-> FALSE, headers |-> h, rows |-> rs] : h \in HeaderInputs, rs \in RowsInputs}

\* CleanText on the texts of the inputs: runs of white space become one blank,
\* then Trim.
CleanText(text) ==
    CASE text = Null -> ""
      [] text = "" -> ""
      [] text = " " -> ""
      [] text = " D2 " -> "D2"
      [] OTHER -> text

NewRecorderDocumentFull ==
    [DocumentNumber |-> Null, DocumentType |-> Null, FirstGrantor |-> Null,
     FirstGrantee |-> Null, format |-> "none", threw |-> FALSE]

SpanText(cell, old) == IF cell.span # Null THEN CleanText(cell.span) ELSE old
LinkText(cell, old) == IF cell.a # Null THEN CleanText(cell.a) ELSE old

RowThrew == [NewRecorderDocumentFull EXCEPT !.threw = TRUE]

\* cells[5] of a row of five cells throws ArgumentOutOfRangeException
ParseSimpleFormat(cells, document) ==
    IF Len(cells) < 6 THEN RowThrew
    ELSE [document EXCEPT !.DocumentNumber = SpanText(cells[3], @),
                          !.DocumentType = SpanText(cells[6], @),
                          !.format = "simple"]

ParseExtendedFormat(cells, document) ==
    [document EXCEPT !.DocumentNumber = SpanText(cells[3], @),
                     !.DocumentType = SpanText(cells[6], @),
                     !.FirstGrantor = LinkText(cells[7], @),
                     !.FirstGrantee = LinkText(cells[8], @),
                     !.format = "extended"]

\* One pass of the foreach of ParseDocuments: the documents after this row.
ParseDocumentsRow(documents, cells, hasExtendedColumns) ==
    IF Len(cells) < 5 THEN documents
    ELSE LET document == IF hasExtendedColumns /\ Len(cells) >= 10
                         THEN ParseExtendedFormat(cells, NewRecorderDocumentFull)
                         ELSE ParseSimpleFormat(cells, NewRecorderDocumentFull)
         IN  IF document.threw THEN documents
             ELSE IF ~string_IsNullOrEmpty(document.DocumentNumber)
                     /\ ~string_IsNullOrEmpty(document.DocumentType)
             THEN Append(documents, document)
             ELSE documents

RECURSIVE ParseDocumentsRows(_, _, _)
ParseDocumentsRows(documents, rows, hasExtendedColumns) ==
    IF rows = <<>> THEN documents
    ELSE ParseDocumentsRows(ParseDocumentsRow(documents, Head(rows), hasExtendedColumns),
                            Tail(rows), hasExtendedColumns)

ParseDocuments(htmlTable) ==
    IF htmlTable.isNull THEN <<>>
    ELSE IF htmlTable.headers.isNull THEN <<>>
    ELSE IF htmlTable.headers.addressSearch THEN <<>>
    ELSE IF htmlTable.rows.isNull THEN <<>>
    ELSE ParseDocumentsRows(<<>>, htmlTable.rows.trs, htmlTable.headers.Count >= 9)

\* string.Trim on the texts of the inputs
String_Trim(text) ==
    CASE text = " " -> ""
      [] text = " D2 " -> "D2"
      [] OTHER -> text

NewRecorderDocumentEntry == [DocNumber |-> Null, DocType |-> Null]

\* One pass of the foreach of ExtractRecorderDocuments: the documents after this
\* row.
ExtractRecorderDocumentsRow(documents, cells) ==
    IF Len(cells) < 5 THEN documents
    ELSE LET docNum == cells[3].span
             docType == IF Len(cells) > 5 THEN cells[6].span ELSE Null
         IN  Append(documents,
                    [NewRecorderDocumentEntry EXCEPT
                        !.DocNumber = IF docNum # Null THEN String_Trim(docNum) ELSE @,
                        !.DocType = IF docType # Null THEN String_Trim(docType) ELSE @])

RECURSIVE ExtractRecorderDocumentsRows(_, _)
ExtractRecorderDocumentsRows(documents, rows) ==
    IF rows = <<>> THEN documents
    ELSE ExtractRecorderDocumentsRows(ExtractRecorderDocumentsRow(documents, Head(rows)),
                                      Tail(rows))

\* section.Documents of ExtractRecorderDocuments
ExtractRecorderDocuments(htmlTable) ==
    IF htmlTable.isNull THEN <<>>
    ELSE IF htmlTable.rows.isNull THEN <<>>
    ELSE ExtractRecorderDocumentsRows(<<>>, htmlTable.rows.trs)

\* The tax-bill repeater of a tax portal page: the indices i that have a
\* taxBillYear_i element, and those of them whose text is only white space.
RepeaterLimit == 10
MaxRepeaterIndex == 11
RepeaterIndices == 0..MaxRepeaterIndex
YearLabels ==
    <<"2024:", "2023:", "2022:", "2021:", "2020:", "2019:", "2018:", "2017:", "2016:",
      "2015:", "2014:", "2013:", "2012:", "2011:">>
YearTexts ==
    <<"2024", "2023", "2022", "2021", "2020", "2019", "2018", "2017", "2016",
      "2015", "2014", "2013", "2012", "2011">>
RepeaterInputs ==
    {[present |-> s, blank |-> {}] : s \in SUBSET RepeaterIndices}
        \cup {[present |-> RepeaterIndices, blank |-> {k}] : k \in RepeaterIndices}

InnerText(doc, i) == IF i \in doc.blank THEN " " ELSE YearLabels[i + 1]

\* TaxPortalHtmlParser.GetElementValue of taxBillYear_i
GetElementValue(doc, i) == IF i \in doc.present THEN CleanText(InnerText(doc, i)) ELSE Null

\* PropertySummaryService.GetSpanText of taxBillYear_i
GetSpanText(doc, i) ==
    IF i \notin doc.present THEN Null
    ELSE LET text == String_Trim(InnerText(doc, i))
         IN  IF string_IsNullOrEmpty(text) THEN Null ELSE text

\* year.TrimEnd(':')
TrimEnd_Colon(year) ==
    IF \E k \in DOMAIN YearLabels : YearLabels[k] = year
    THEN YearTexts[CHOOSE k \in DOMAIN YearLabels : YearLabels[k] = year]
    ELSE year

\* for (int i = 0; i < 10; i++) of ParseTaxBills, from index i on; a mutant that
\* goes on to the next index where the year label is missing
RECURSIVE ParseTaxBillsFrom_noBreak(_, _, _)
ParseTaxBillsFrom_noBreak(doc, i, bills) ==
    IF ~(i < RepeaterLimit) THEN bills
    ELSE LET year == GetElementValue(doc, i)
         IN  IF string_IsNullOrEmpty(year) THEN ParseTaxBillsFrom_noBreak(doc, i + 1, bills)
             ELSE ParseTaxBillsFrom_noBreak(doc, i + 1, Append(bills, [Year |-> TrimEnd_Colon(year)]))

RECURSIVE ParseTaxBillsFrom(_, _, _)
ParseTaxBillsFrom(doc, i, bills) ==
    IF ~(i < RepeaterLimit) THEN bills
    ELSE LET year == GetElementValue(doc, i)
         IN  IF string_IsNullOrEmpty(year) THEN bills
             ELSE ParseTaxBillsFrom(doc, i + 1, Append(bills, [Year |-> TrimEnd_Colon(year)]))

ParseTaxBills(doc) == ParseTaxBillsFrom(doc, 0, <<>>)

RECURSIVE ExtractTaxBillsFrom(_, _, _)
ExtractTaxBillsFrom(doc, i, bills) ==
    IF ~(i < RepeaterLimit) THEN bills
    ELSE LET year == GetSpanText(doc, i)
         IN  IF string_IsNullOrEmpty(year) THEN bills
             ELSE ExtractTaxBillsFrom(doc, i + 1, Append(bills, [Year |-> TrimEnd_Colon(year)]))

\* section.Bills of ExtractTaxBills
ExtractTaxBills(doc) == ExtractTaxBillsFrom(doc, 0, <<>>)

NoParse == [fn |-> "none", input |-> NoTable, output |-> <<>>]

\* RecorderHtmlParser parses the page of a recorder result.
CallParseDocuments(htmlTable) ==
    /\ parse.fn = "none"
    /\ parse' = [fn |-> "ParseDocuments", input |-> htmlTable,
                 output |-> ParseDocuments(htmlTable)]
    /\ UNCHANGED serverVars
    /\ UNCHANGED otherThanParse

\* PropertySummaryService extracts the recorder section of a summary.
CallExtractRecorderDocuments(htmlTable) ==
    /\ parse.fn = "none"
    /\ parse' = [fn |-> "ExtractRecorderDocuments", input |-> htmlTable,
                 output |-> ExtractRecorderDocuments(htmlTable)]
    /\ UNCHANGED serverVars
    /\ UNCHANGED otherThanParse

\* TaxPortalHtmlParser parses the bills of a tax portal page.
CallParseTaxBills(doc) ==
    /\ parse.fn = "none"
    /\ parse' = [fn |-> "ParseTaxBills", input |-> doc, output |-> ParseTaxBills(doc)]
    /\ UNCHANGED serverVars
    /\ UNCHANGED otherThanParse

\* PropertySummaryService extracts the bills of a summary.
CallExtractTaxBills(doc) ==
    /\ parse.fn = "none"
    /\ parse' = [fn |-> "ExtractTaxBills", input |-> doc, output |-> ExtractTaxBills(doc)]
    /\ UNCHANGED serverVars
    /\ UNCHANGED otherThanParse

\* The parser has returned and its caller has taken the result.
ParserReturns ==
    /\ parse.fn # "none"
    /\ parse' = NoParse
    /\ UNCHANGED serverVars
    /\ UNCHANGED otherThanParse

InitParse == parse = NoParse

-----------------------------------------------------------------------------
(* The runs of processImportJob for one job: activeJobs, the callbacks of each *)
(* run, and recoverStuckJobs                                                   *)

MaxRuns == 3
MaxRunPins == 2
RunIds == 1..MaxRuns
RunPins == 1..MaxRunPins

\* jobStatus: import_jobs.status; activeJobs: whether the job id is in the set;
\* run[r]: where run r of processImportJob stands; cb[r][p]: where the callback of
\* run r for pin p stands; status[p]: import_pins.status; tookToFetching[p]: the
\* runs whose callback has set pin p to fetching; timer: recoverStuckJobs of this
\* process; restarts: how often the process was started again.
NoRuns ==
    [jobStatus |-> "none", activeJobs |-> FALSE,
     run |-> [r \in RunIds |-> "none"],
     cb |-> [r \in RunIds |-> [p \in RunPins |-> "none"]],
     status |-> [p \in RunPins |-> "pending"],
     tookToFetching |-> [p \in RunPins |-> {}],
     timer |-> "armed", restarts |-> 0]

RunningRuns(s) == {r \in RunIds : s.run[r] \in {"init", "loop", "batch"}}
UnusedRuns(s) == {r \in RunIds : s.run[r] = "none"}
PendingRunPins(s) == {p \in RunPins : s.status[p] = "pending"}

\* processImportJob(jobId) up to its first await: return when the id is in
\* activeJobs, else add it; the run then awaits updateImportJobStatus.
processImportJob(s) ==
    IF s.activeJobs THEN s
    ELSE LET r == CHOOSE r \in UnusedRuns(s) : \A q \in UnusedRuns(s) : r <= q
         IN  [s EXCEPT !.activeJobs = TRUE, !.run[r] = "init"]

\* catch and finally of processImportJob: updateImportJobStatus(jobId, "error"),
\* executed or rejected, and activeJobs.delete(jobId).
RunFails(s, r, jobOk) ==
    [s EXCEPT !.jobStatus = IF jobOk THEN "error" ELSE @,
              !.activeJobs = FALSE,
              !.run[r] = "ended"]

\* POST /api/import/upload: createImportJob, then processImportJob(job.id).
Upload ==
    /\ runs.jobStatus = "none"
    /\ runs' = processImportJob([runs EXCEPT !.jobStatus = "pending"])
    /\ UNCHANGED serverVars
    /\ UNCHANGED otherThanRuns

\* updateImportJobStatus(jobId, "processing") has been executed.
RunBegins(r) ==
    /\ runs.run[r] = "init"
    /\ runs' = [runs EXCEPT !.jobStatus = "processing", !.run[r] = "loop"]
    /\ UNCHANGED serverVars
    /\ UNCHANGED otherThanRuns

\* One pass of while (true): getPendingPinsForJob; with no pending pin the job is
\* set to complete and finally removes it from activeJobs; else a callback is
\* started for every pin read (there are fewer pins than BATCH_SIZE).
RunReadsPending(r) ==
    /\ runs.run[r] = "loop"
    /\ LET pendingPins == PendingRunPins(runs)
       IN  runs' = IF pendingPins = {}
                   THEN [runs EXCEPT !.jobStatus = "complete", !.activeJobs = FALSE,
                                     !.run[r] = "ended"]
                   ELSE [runs EXCEPT !.run[r] = "batch",
                                     !.cb[r] = [p \in RunPins |->
                                                   IF p \in pendingPins THEN "start" ELSE "none"]]
    /\ UNCHANGED serverVars
    /\ UNCHANGED otherThanRuns

\* Promise.all of the batch has resolved: the loop goes on.
RunBatchResolves(r) ==
    /\ runs.run[r] = "batch"
    /\ \A p \in RunPins : runs.cb[r][p] \in {"none", "done"}
    /\ runs' = [runs EXCEPT !.run[r] = "loop",
                            !.cb[r] = [p \in RunPins |-> "none"]]
    /\ UNCHANGED serverVars
    /\ UNCHANGED otherThanRuns

\* updateImportPinStatus(id, "fetching") of a callback, executed or rejected.
CallbackMarksFetching(r, p, ok) ==
    /\ runs.cb[r][p] = "start"
    /\ runs' = IF ok
               THEN [runs EXCEPT !.cb[r][p] = "fetch", !.status[p] = "fetching",
                                 !.tookToFetching[p] = @ \cup {r}]
               ELSE [runs EXCEPT !.cb[r][p] = "catch"]
    /\ UNCHANGED serverVars
    /\ UNCHANGED otherThanRuns

\* fetchAllSourcesForPin has ended and the status update after it is executed
\* (complete, or error with four errors) or rejected.
CallbackFetched(r, p, allFailed, ok) ==
    /\ runs.cb[r][p] = "fetch"
    /\ runs' = IF ok
               THEN [runs EXCEPT !.cb[r][p] = "done",
                                 !.status[p] = IF allFailed THEN "error" ELSE "complete"]
               ELSE [runs EXCEPT !.cb[r][p] = "catch"]
    /\ UNCHANGED serverVars
    /\ UNCHANGED otherThanRuns

\* The catch block of a callback: updateImportPinStatus(id, "error", ...). When it
\* is rejected, Promise.all of the run rejects, if the run still awaits it, and
\* the run ends through catch and finally; the other callbacks go on.
CallbackCatches(r, p, ok, jobOk) ==
    /\ runs.cb[r][p] = "catch"
    /\ runs' = IF ok THEN [runs EXCEPT !.cb[r][p] = "done", !.status[p] = "error"]
               ELSE IF runs.run[r] = "batch"
               THEN RunFails([runs EXCEPT !.cb[r][p] = "none"], r, jobOk)
               ELSE [runs EXCEPT !.cb[r][p] = "none"]
    /\ UNCHANGED serverVars
    /\ UNCHANGED otherThanRuns

\* setTimeout(recoverStuckJobs, 5000) fires: getImportJobs, and for a job in
\* processing that is not in activeJobs the query of its pending pins is awaited.
RecoverReadsJobs ==
    /\ runs.timer = "armed"
    /\ runs' = [runs EXCEPT !.timer = IF runs.jobStatus = "processing" /\ ~runs.activeJobs
                                      THEN "query" ELSE "fired"]
    /\ UNCHANGED serverVars
    /\ UNCHANGED otherThanRuns

\* The query has returned: processImportJob(job.id) with a pending pin, else the
\* job is set to complete.
RecoverActs ==
    /\ runs.timer = "query"
    /\ PendingRunPins(runs) # {} /\ ~runs.activeJobs => UnusedRuns(runs) # {}
    /\ runs' = IF PendingRunPins(runs) # {}
               THEN processImportJob([runs EXCEPT !.timer = "fired"])
               ELSE [runs EXCEPT !.timer = "fired", !.jobStatus = "complete"]
    /\ UNCHANGED serverVars
    /\ UNCHANGED otherThanRuns

\* The server process stops and is started again: its runs, callbacks and
\* activeJobs are gone, the rows stay, the timer is set again.
ProcessRestarts ==
    /\ runs.restarts < MaxRestarts
    /\ runs.jobStatus # "none"
    /\ runs' = [runs EXCEPT !.restarts = @ + 1, !.activeJobs = FALSE, !.timer = "armed",
                            !.run = [r \in RunIds |-> IF @[r] = "none" THEN "none" ELSE "ended"],
                            !.cb = [r \in RunIds |-> [p \in RunPins |-> "none"]]]
    /\ UNCHANGED serverVars
    /\ UNCHANGED otherThanRuns

InitRuns == runs = NoRuns

-----------------------------------------------------------------------------
(* One callback of the batch of processImportJob: the import_pins row of a pin *)
(* around its fetchAllSourcesForPin call                                       *)

\* error: the entries of the error text, {} for null; pc: where the callback is
PendingRow == [status |-> "pending", error |-> {}, pc |-> "start"]

\* updateImportPinStatus(pinId, status, error): error || null
updateImportPinStatus(r, status, error) == [r EXCEPT !.status = status, !.error = error]

\* errors.push(`${source}: ${err.message}`) for each source, errors.join("; ")
JoinedErrors(errors) == {<<s, DbErrorMessage>> : s \in errors}

\* await storage.updateImportPinStatus(importPin.id, "fetching"), executed or
\* rejected (then the catch block follows).
PinMarkFetching(ok) ==
    /\ pinRow.pc = "start"
    /\ pinRow' = IF ok THEN [updateImportPinStatus(pinRow, "fetching", {}) EXCEPT !.pc = "fetch"]
               ELSE [pinRow EXCEPT !.pc = "catch"]
    /\ UNCHANGED serverVars
    /\ UNCHANGED otherThanPinRow

\* const result = await fetchAllSourcesForPin(importPin.pin, ...): the call starts.
PinFetchStarts(pin) ==
    /\ pinRow.pc = "fetch"
    /\ FanStart(pin)

\* fetchAllSourcesForPin has ended: when it threw the catch block follows; else
\* the status update chosen by result.errors.length, executed or rejected.
PinOutcome(ok) ==
    /\ pinRow.pc = "fetch"
    /\ fan.state \in {"returned", "threw"}
    /\ pinRow' = IF fan.state = "threw" \/ ~ok THEN [pinRow EXCEPT !.pc = "catch"]
               ELSE IF Cardinality(fan.errors) = 0
               THEN [updateImportPinStatus(pinRow, "complete", {}) EXCEPT !.pc = "done"]
               ELSE IF Cardinality(fan.errors) < 4
               THEN [updateImportPinStatus(pinRow, "complete", JoinedErrors(fan.errors)) EXCEPT !.pc = "done"]
               ELSE [updateImportPinStatus(pinRow, "error", JoinedErrors(fan.errors)) EXCEPT !.pc = "done"]
    /\ UNCHANGED serverVars
    /\ UNCHANGED otherThanPinRow

\* catch (err): updateImportPinStatus(importPin.id, "error", err.message),
\* executed or rejected (the callback rejects).
PinCatch(ok) ==
    /\ pinRow.pc = "catch"
    /\ pinRow' = IF ok THEN [updateImportPinStatus(pinRow, "error", {<<"catch", DbErrorMessage>>})
                             EXCEPT !.pc = "done"]
               ELSE [pinRow EXCEPT !.pc = "rejected"]
    /\ UNCHANGED serverVars
    /\ UNCHANGED otherThanPinRow

InitPinRow == pinRow = PendingRow

InitFront == InitBids /\ InitWire /\ InitDrawer /\ InitLegacy /\ InitBurst /\ InitUpstream /\ InitParse /\ InitRuns /\ InitPinRow

Init == InitExpress /\ InitDotNet /\ InitClear /\ InitSession /\ InitImport /\ InitFront

Next ==
    \/ \E d \in ClockSteps : Tick(d, ClockCap)
    \/ \E pin \in ExpressPinInputs, source \in SourceInputs : Request(pin, source)
    \/ \E outcome \in NetworkOutcomes : ProxyReturns(outcome)
    \/ Deliver
    \/ \E pin \in ImportPinInputs, source \in SourceInputs, outcome \in StoreOutcomes :
           ImportFetch(pin, source, outcome)
    \/ \E w \in pending : ExecWrite(w)
    \/ \E w \in pending : FailWrite(w)

Spec == Init /\ [][Next]_vars

\* The storage layer alone, over several keys: upserts are issued (as the import
\* worker issues them), executed or rejected while the clock runs.
NextStore ==
    \/ \E d \in StoreClockSteps : Tick(d, ClockCap)
    \/ \E k \in StoreKeyInputs, outcome \in StoreOutcomes : ImportFetch(k[1], k[2], outcome)
    \/ \E w \in pending : ExecWrite(w)
    \/ \E w \in pending : FailWrite(w)

SpecStore == Init /\ [][NextStore]_vars

\* The .NET API alone: service calls and ClearCache while the clock runs.
NextDotNet ==
    \/ \E d \in DotNetClockSteps : Tick(d, DotNetClockCap)
    \/ \E op \in FetchOpInputs, pin \in DotNetPinInputs, site \in SiteOutcomes : CallFetch(op, pin, site)
    \/ \E op \in GetOpInputs, pin \in DotNetPinInputs, site \in SiteOutcomes, followUp \in BOOLEAN :
           CallGet(op, pin, site, followUp)
    \/ \E pin \in DotNetPinInputs : CallClearCache(pin)
    \/ Return

SpecDotNet == Init /\ [][NextDotNet]_vars

\* The PIN check of the .NET API: every kind of call with every shape of identifier.
NextPinCheck ==
    \/ \E op \in PinCheckFetchOps, pin \in PinCheckInputs, site \in PinCheckSites :
           CallFetch(op, pin, site)
    \/ \E op \in PinCheckGetOps, pin \in PinCheckInputs, site \in PinCheckSites, followUp \in BOOLEAN :
           CallGet(op, pin, site, followUp)
    \/ \E pin \in PinCheckInputs : CallClearCache(pin)
    \/ Return

SpecPinCheck == Init /\ [][NextPinCheck]_vars

\* The Express proxy with its clear-cache endpoint: rows are written by the import
\* worker, the cache is cleared, requests are answered.
NextClear ==
    \/ \E d \in StoreClockSteps : Tick(d, ClockCap)
    \/ \E pin \in ImportPinInputs, source \in SourceInputs, outcome \in ClearImportOutcomes :
           ImportFetch(pin, source, outcome)
    \/ \E w \in pending : ExecWrite(w)
    \/ \E pin \in ClearPinInputs, reachable \in BOOLEAN : ClearCacheEndpoint(pin, reachable)
    \/ \E pin \in ImportPinInputs, source \in SourceInputs : Request(pin, source)
    \/ \E outcome \in ClearLiveOutcomes : ProxyReturns(outcome)
    \/ Deliver

SpecClear == Init /\ [][NextClear]_vars

\* The raw endpoints of the .NET API with the HTTP steps of their sessions.
NextSession ==
    \/ \E pin \in SessionPinInputs, s1 \in StepInputs, s2 \in StepInputs, fb \in StepInputs :
           CallTaxPortal(pin, s1, s2, fb)
    \/ \E pin \in SessionPinInputs, s1 \in StepInputs, s2 \in StepInputs :
           CallCountyClerk(pin, s1, s2)
    \/ \E pin \in SessionPinInputs, s1 \in StepInputs, s2 \in StepInputs, s3 \in StepInputs,
             d \in StepInputs : CallRecorder(pin, s1, s2, s3, d)
    \/ Return

SpecSession == Init /\ [][NextSession]_vars

\* GET /api/CookCounty/tax-portal alone, over landing pages with and without
\* the hidden fields.
NextTaxPortal ==
    \/ \E pin \in ProtocolPinInputs, s1 \in TaxPortalPageInputs, s2 \in StepInputs, fb \in StepInputs :
           CallTaxPortal(pin, s1, s2, fb)
    \/ Return

SpecTaxPortal == Init /\ [][NextTaxPortal]_vars

\* The two implementations of the clerk's protocol: GET /api/CookCounty/county-clerk
\* of the .NET API and fetchTaxDelinquent of db.ts.
NextClerk ==
    \/ \E pin \in SessionPinInputs, s1 \in ClerkPageInputs, s2 \in StepInputs :
           CallCountyClerk(pin, s1, s2)
    \/ Return
    \/ \E pin \in LegacyPinInputs, r1 \in ClerkPageInputs, r2 \in StepInputs :
           CallFetchTaxDelinquent(pin, r1, r2)

SpecClerk == Init /\ [][NextClerk]_vars

\* Requests for the tax portal that arrive while others are being served.
NextBurst ==
    \/ \E r \in Requests, pin \in BurstPinInputs : BurstArrives(r, pin)
    \/ \E r \in Requests, site \in BurstSites : BurstSessionEnds(r, site)
    \/ \E r \in Requests : BurstReturns(r)

SpecBurst == Init /\ [][NextBurst]_vars

\* Upstream calls of both tiers; an upstream that answers does so eventually, and
\* a timeout that is set elapses eventually.
NextUpstream ==
    \/ \E c \in UpstreamCalls, answers \in BOOLEAN : StartsCall(c, answers)
    \/ \E c \in UpstreamCalls : UpstreamResponds(c)
    \/ \E c \in UpstreamCalls : TimeoutElapses(c)

SpecUpstream ==
    /\ Init
    /\ [][NextUpstream]_vars
    /\ \A c \in UpstreamCalls : WF_vars(UpstreamResponds(c)) /\ WF_vars(TimeoutElapses(c))

\* The recorder parser on every table of the inputs.
NextRecorderParse ==
    \/ \E htmlTable \in TableInputs : CallParseDocuments(htmlTable)
    \/ ParserReturns

SpecRecorderParse == Init /\ [][NextRecorderParse]_vars

\* Both parsers of the recorder results table.
NextRecorderRows ==
    \/ \E htmlTable \in TableInputs : CallParseDocuments(htmlTable)
    \/ \E htmlTable \in TableInputs : CallExtractRecorderDocuments(htmlTable)
    \/ ParserReturns

SpecRecorderRows == Init /\ [][NextRecorderRows]_vars

\* Both walks of the tax-bill repeater.
NextTaxBills ==
    \/ \E doc \in RepeaterInputs : CallParseTaxBills(doc)
    \/ \E doc \in RepeaterInputs : CallExtractTaxBills(doc)
    \/ ParserReturns

SpecTaxBills == Init /\ [][NextTaxBills]_vars

\* GET /api/CookCounty/recorder alone.
NextRecorder ==
    \/ \E pin \in ProtocolPinInputs, s1 \in StepInputs, s2 \in StepInputs,
             s3 \in RecorderResultInputs, d \in RecorderResultInputs :
           CallRecorder(pin, s1, s2, s3, d)
    \/ Return

SpecRecorder == Init /\ [][NextRecorder]_vars

\* The structured-data operations over pages that parse, pages on which the
\* parser throws, and failing sites.
NextStructured ==
    \/ \E op \in GetOps, pin \in SessionPinInputs, site \in StructuredSites, followUp \in BOOLEAN :
           CallGet(op, pin, site, followUp)
    \/ Return

SpecStructured == Init /\ [][NextStructured]_vars

\* One fetchAllSourcesForPin call with the database executing or rejecting its
\* cache writes.
NextFan ==
    \/ \E pin \in FanPinInputs : FanStart(pin)
    \/ \E source \in SOURCES, outcome \in FanOutcomes : FanProxyReturns(source, outcome)
    \/ \E source \in SOURCES : FanWriteDone(source)
    \/ \E source \in SOURCES : FanWriteFails(source)
    \/ FanSettle

SpecFan == Init /\ [][NextFan]_vars

\* One import job from upload to its end, with the database executing or
\* rejecting the status updates.
NextImport ==
    \/ \E order \in IdOrderInputs : CreateImportJob(order)
    \/ TakeBatch
    \/ Pause
    \/ JobEnds
    \/ \E p \in Positions, ok \in BOOLEAN : MarkFetching(p, ok)
    \/ \E p \in Positions, result \in FanResults, ok \in BOOLEAN : FetchAllDone(p, result, ok)
    \/ \E p \in Positions, ok \in BOOLEAN : CatchUpdate(p, ok, TRUE)

SpecImport == Init /\ [][NextImport]_vars

\* One run of processImportJob in which every storage call and every fetch ends,
\* by returning or by throwing, and the timer between batches fires.
NextImportRun ==
    \/ \E order \in IdOrderInputs : CreateImportJob(order)
    \/ TakeBatch
    \/ Pause
    \/ JobEnds
    \/ \E p \in Positions, ok \in BOOLEAN : MarkFetching(p, ok)
    \/ \E p \in Positions, result \in FanResults, ok \in BOOLEAN : FetchAllDone(p, result, ok)
    \/ \E p \in Positions, ok \in BOOLEAN, jobOk \in BOOLEAN : CatchUpdate(p, ok, jobOk)

SpecImportRun ==
    /\ Init
    /\ [][NextImportRun]_vars
    /\ WF_vars(TakeBatch) /\ WF_vars(Pause) /\ WF_vars(JobEnds)
    /\ \A p \in Positions :
          /\ WF_vars(\E ok \in BOOLEAN : MarkFetching(p, ok))
          /\ WF_vars(\E result \in FanResults, ok \in BOOLEAN : FetchAllDone(p, result, ok))
          /\ WF_vars(\E ok \in BOOLEAN, jobOk \in BOOLEAN : CatchUpdate(p, ok, jobOk))

\* The runs of processImportJob for one job, started by the upload and by
\* recoverStuckJobs.
NextRuns ==
    \/ Upload
    \/ \E r \in RunIds : RunBegins(r)
    \/ \E r \in RunIds : RunReadsPending(r)
    \/ \E r \in RunIds : RunBatchResolves(r)
    \/ \E r \in RunIds, p \in RunPins, ok \in BOOLEAN : CallbackMarksFetching(r, p, ok)
    \/ \E r \in RunIds, p \in RunPins, allFailed \in BOOLEAN, ok \in BOOLEAN :
           CallbackFetched(r, p, allFailed, ok)
    \/ \E r \in RunIds, p \in RunPins, ok \in BOOLEAN, jobOk \in BOOLEAN :
           CallbackCatches(r, p, ok, jobOk)
    \/ RecoverReadsJobs
    \/ RecoverActs
    \/ ProcessRestarts

SpecRuns == Init /\ [][NextRuns]_vars

\* One pin of a batch: its row, its fetchAllSourcesForPin call, its outcome.
NextPinOutcome ==
    \/ \E ok \in BOOLEAN : PinMarkFetching(ok)
    \/ \E pin \in FanPinInputs : PinFetchStarts(pin)
    \/ \E source \in SOURCES, outcome \in FanOutcomes : FanProxyReturns(source, outcome)
    \/ \E source \in SOURCES : FanWriteDone(source)
    \/ \E source \in SOURCES : FanWriteFails(source)
    \/ FanSettle
    \/ \E ok \in BOOLEAN : PinOutcome(ok)
    \/ \E ok \in BOOLEAN : PinCatch(ok)

SpecPinOutcome == Init /\ [][NextPinOutcome]_vars

\* Requests to PUT /api/pins/:pin/bids, one after the other.
NextBids ==
    \E pin \in BidPinInputs, bid \in BidInputs, overbid \in BidInputs, dbOk \in BOOLEAN :
        PutBids(pin, bid, overbid, dbOk)

SpecBids == Init /\ [][NextBids]_vars

\* Requests in flight at once, each of which the client may cancel.
NextWire ==
    \/ \E r \in Requests : ClientRequests(r)
    \/ \E r \in Requests : DotNetCallsSite(r)
    \/ \E r \in Requests : SiteAnswers(r)
    \/ \E r \in Requests : DotNetAnswers(r)
    \/ \E r \in Requests : ClientCancels(r)
    \/ \E r \in Requests : WireEnds(r)

SpecWire == Init /\ [][NextWire]_vars

\* A page that calls open() and close() of the drawer while timers fire and
\* responses arrive.
NextDrawer ==
    \/ \E pin \in DrawerPinInputs : open(pin)
    \/ close
    \/ \E t \in 1..MaxCloses : CloseTimerFires(t)
    \/ \E t \in 1..MaxOpens : OpenTimerFires(t)
    \/ \E q \in drawer.inflight : SourceResponds(q)
    \/ \E q \in drawer.inflight, success \in BOOLEAN : BidsResponds(q, success)

SpecDrawer == Init /\ [][NextDrawer]_vars

\* The import job with a restart of the server process while it runs.
NextRecover ==
    \/ \E order \in IdOrderInputs : CreateImportJob(order)
    \/ TakeBatch
    \/ Pause
    \/ JobEnds
    \/ \E p \in Positions : MarkFetching(p, TRUE)
    \/ \E p \in Positions, result \in {"none", "throws"} : FetchAllDone(p, result, TRUE)
    \/ \E p \in Positions : CatchUpdate(p, TRUE, TRUE)
    \/ Restart
    \/ recoverStuckJobs

SpecRecover == Init /\ [][NextRecover]_vars

-----------------------------------------------------------------------------
(* Claims about the persistent cache (checked under Spec and SpecStore) *)

SevenDaysMs == 7 * 24 * 60 * 60 * 1000

AgeAtRead(r) == r.readAt - r.cached.fetchedAt

\* C2: whenever a row for (pin, source) exists whose age is at most 7 days, the
\* request is answered from that row (cached: true, cachedAt = the row's fetchedAt)
\* and the live fetch is not invoked.
C2_CacheFirstForAnyFreshRow ==
    LET r == req
    IN  (r.reads = 1 /\ r.cached # NoRow /\ AgeAtRead(r) <= SevenDaysMs)
            => /\ r.fetches = 0
               /\ r.pc = "done"
               /\ r.resp.cached
               /\ r.resp.cachedAt = r.cached.fetchedAt
               /\ r.resp.data = r.cached.data

\* C2, for the rows that hold a payload (what the code does): such a fresh row is
\* served as it is, and the live fetch is not invoked.
CacheFirstForFreshPayloadRow ==
    LET r == req
    IN  (r.reads = 1 /\ r.cached.data # Null /\ AgeAtRead(r) <= SevenDaysMs)
            => /\ r.fetches = 0
               /\ r.pc = "done"
               /\ r.resp = CachedResp(r.cached)

C5_CachedFailureIsNotRefetched ==
    LET r == req
    IN  (r.reads = 1 /\ r.cached # NoRow /\ r.cached.error # Null
         /\ AgeAtRead(r) <= SevenDaysMs)
            => r.fetches = 0

C7_StalenessBoundary ==
    \A r \in table :
        /\ now - r.fetchedAt = SevenDaysMs + 1000 => isCacheStale(r.fetchedAt)
        /\ now - r.fetchedAt = SevenDaysMs - 1000 => ~isCacheStale(r.fetchedAt)
        /\ isCacheStale(r.fetchedAt) <=> now - r.fetchedAt > 604800000

C7_Witness ==
    \E r \in table : now - r.fetchedAt = SevenDaysMs + 1000 /\ isCacheStale(r.fetchedAt)

\* C8: right after an upsert of (pin, source, payload) has been executed,
\* getCachedData(pin, source) returns a row with exactly that payload, and the row
\* is not stale.
C8_RoundTrip ==
    justDone # NoWrite =>
        LET row == getCachedData(justDone.pin, justDone.source)
        IN  /\ row # NoRow
            /\ row.data = justDone.data
            /\ ~isCacheStale(row.fetchedAt)

C8_Witness ==
    /\ justDone # NoWrite
    /\ justDone.data \in Payloads
    /\ justDone.conflict
    /\ getCachedData(justDone.pin, justDone.source).data = justDone.data

\* C9: at most one row per (pin, source), and its data, error and fetchedAt are
\* those of the upsert executed last for that key (never a mix of two writes).
C9_LastWriteWins ==
    \A k \in Keys :
        LET rows == {r \in table : r.pin = k[1] /\ r.source = k[2]}
        IN  /\ Cardinality(rows) <= 1
            /\ lastDone[k] = NoWrite => rows = {}
            /\ lastDone[k] # NoWrite => rows = {RowOf(lastDone[k])}

C9_Witness ==
    /\ justDone # NoWrite
    /\ justDone.conflict
    /\ \E w \in pending : w.pin = justDone.pin /\ w.source = justDone.source /\ w.data # justDone.data
    /\ table # {}
    /\ \E r \in table : r.pin = justDone.pin /\ r.source # justDone.source

-----------------------------------------------------------------------------
(* Claims about the PIN check and the in-process cache of the .NET API *)
(* (checked under SpecPinCheck and SpecDotNet)                          *)

\* The shape XX-XX-XXX-XXX-XXXX: 14 digits grouped 2-2-3-3-4 and nothing else.
CanonicalPin(pin) ==
    /\ pin # PinMissing
    /\ Len(pin) = 18
    /\ \A i \in 1..18 : IF i \in {3, 6, 10, 14} THEN pin[i] = "-" ELSE pin[i] \in Digits

FiveMinutesMs == 5 * 60 * 1000

\* The Express half of C1: handleCachedEndpoint answers a PIN of any other shape
\* with 400 INVALID_PIN, having read nothing, fetched nothing and written nothing.
InvalidPinRejectedByExpress ==
    LET r == req
    IN  (r.pc # "idle" /\ ~CanonicalPin(r.pin))
            => /\ r.pc = "done"
               /\ r.resp = InvalidPinResp
               /\ r.reads = 0 /\ r.fetches = 0 /\ r.wrote = NoWrite

\* The .NET half of C1: a Fetch*Async / Get*DataAsync call with a PIN of any other
\* shape returns INVALID_PIN, with no cache access and no outbound request before.
InvalidPinRejectedByDotNet ==
    (call.op \in FetchOps \cup GetOps /\ ~CanonicalPin(call.pin))
        => /\ ~call.success
           /\ call.code = "INVALID_PIN"
           /\ ~call.cacheAccess
           /\ call.outbound = 0

\* C1: for every per-source operation (Fetch*Async, Get*DataAsync and
\* handleCachedEndpoint), a PIN that is not of the shape XX-XX-XXX-XXX-XXXX (a
\* missing or empty one included) yields INVALID_PIN, and no network call, no
\* in-process cache access and no persistent-cache read or write happens before.
C1_InvalidPinBeforeAnyIO == InvalidPinRejectedByExpress /\ InvalidPinRejectedByDotNet

\* C10: once an operation has fetched a PIN with success, every further call of
\* the same operation for the same PIN within the following 5 minutes, no
\* ClearCache in between and whatever other operations ran in between, returns
\* the cached result without any outbound request; after 5 minutes the next call
\* fetches again.
C10_RepeatWithinFiveMinutesIsServedFromCache ==
    (call.op \in FetchOps \cup GetOps /\ call.since >= 0)
        => IF call.at - call.since < FiveMinutesMs
           THEN call.success /\ call.hit /\ call.outbound = 0
           ELSE ~call.hit

\* the cache key an operation reads and writes
OpCacheKey(op, pin) == IF op \in FetchOps THEN FetchCacheKey(op, pin) ELSE GetCacheKey(op, pin)

\* the in-process cache holds a live (unexpired) entry under key k
HoldsEntry(cache, k) == cache[k] # NoEntry /\ now < cache[k].expiresAt

\* C11: a call whose fetch failed (error result, or a record with its error set)
\* adds or replaces no entry of the in-process cache under the operation's key.
C11_FailedFetchLeavesCacheAlone ==
    [][(/\ call = NoCall
        /\ call'.op \in FetchOps \cup GetOps
        /\ call'.cacheAccess
        /\ ~call'.hit
        /\ (~call'.success \/ call'.data.error # Null))
           => LET k == OpCacheKey(call'.op, call'.pin)
              IN  memCache'[k] = memCache[k]]_vars

\* C11, for the Fetch*Async methods only: a failed fetch leaves the whole cache as
\* it was.
FailedFetchAsyncLeavesCacheAlone ==
    [][(call = NoCall /\ call'.op \in FetchOps /\ ~call'.success) => memCache' = memCache]_vars

\* C12: after ClearCache(pin) with an identifier, the in-process cache holds no
\* entry for that PIN under any key, whichever operation populated it.
C12_ClearCacheWithPinRemovesEveryEntryOfThePin ==
    (call.op = "ClearCache" /\ ValidatePin(call.pin))
        => \A k \in CacheKeys : k[2] = call.pin => ~HoldsEntry(memCache, k)

\* C13: after ClearCache() without an identifier has been answered with "All
\* cache cleared", the in-process cache holds no entry at all.
C13_ClearCacheWithoutPinRemovesEverything ==
    (call.op = "ClearCache" /\ ClearCacheMessage(call.pin) = "All cache cleared")
        => \A k \in CacheKeys : ~HoldsEntry(memCache, k)

\* C14: after POST /api/cook/clear-cache has answered successfully (for the PIN, or
\* for every PIN when none was given), the next structured-data request for the
\* PIN is not served from a row that existed before the clear: it performs a live
\* fetch and its answer does not carry cached: true.
C14_ClearCacheEndpointClearsPersistentRows ==
    (/\ req.pc = "done"
     /\ req.reads = 1
     /\ cleared.status = 200
     /\ cleared.pin \in {req.pin, PinMissing}
     /\ req.cached \in cleared.rows)
        => req.fetches = 1 /\ ~req.resp.cached

\* the row of property_cache under (pin, source) holds a payload or an error
HasRecord(pin, source) ==
    \E r \in table : r.pin = pin /\ r.source = source /\ (r.data # Null \/ r.error # Null)

\* C15: whatever the four sources answer and whether or not cache writes fail,
\* fetchAllSourcesForPin does not throw, and when it ends every source has a
\* populated or an error-carrying record under its own key.
C15_FanOutNeverThrows ==
    fan.state \in {"returned", "threw"}
        => /\ fan.state = "returned"
           /\ \A s \in SOURCES : HasRecord(fan.pin, s)

\* C15, for the calls that return: every source has its record, and all four
\* sources were attempted.
FanOutThatReturnsHasEveryRecord ==
    fan.state = "returned" => \A s \in SOURCES : HasRecord(fan.pin, s)

-----------------------------------------------------------------------------
(* Claims about the source sessions and the API boundary (SpecSession) *)

\* the call went through its source session (it was not rejected, nor served
\* from the cache)
WentUpstream == call.op \in FetchOps /\ call.cacheAccess /\ ~call.hit

\* C16: a request of a session that got no response (timeout, connection error)
\* ends in a FETCH_ERROR result, and the body of a non-2xx response is never
\* returned, nor cached, as a successful result.
C16_NetworkFailureIsAFetchError ==
    WentUpstream =>
        /\ (\E i \in DOMAIN session : session[i].kind = "threw")
               => ~call.success /\ call.code = "FETCH_ERROR"
        /\ \A i \in DOMAIN session :
               (session[i].kind = "resp" /\ ~IsSuccessStatusCode(session[i]))
                   => /\ ~(call.success /\ call.data.html = session[i].body)
                      /\ memCache[FetchCacheKey(call.op, call.pin)].value.html # session[i].body

\* C16, the part about exceptions alone: a request that got no response ends in
\* a FETCH_ERROR result.
ExceptionIsAFetchError ==
    (WentUpstream /\ \E i \in DOMAIN session : session[i].kind = "threw")
        => ~call.success /\ call.code = "FETCH_ERROR"

\* C17: for a valid PIN a structured-data operation answers with a success
\* envelope; the record it built has its error set exactly when the underlying
\* fetch returned an error or parsing threw.
C17_StructuredDataNeverFails ==
    (call.op \in GetOps /\ CanonicalPin(call.pin))
        => /\ call.success
           /\ call.status = 200
           /\ ~call.hit => (call.data.error = Null <=> (call.innerOk /\ ~call.parseThrew))

\* a structured-data call on a page the parser threw on
C17_Witness ==
    /\ call.op \in GetOps
    /\ CanonicalPin(call.pin)
    /\ call.parseThrew
    /\ call.success
    /\ call.data.error # Null

\* C18: at the raw per-source endpoints a success result is answered with 200,
\* INVALID_PIN with 400, NOT_FOUND with 404 and every other error code with 502.
C18_ErrorCodeToHttpStatus ==
    call.op \in FetchOps
        => call.status = IF call.success THEN 200
                         ELSE CASE call.code = "INVALID_PIN" -> 400
                                [] call.code = "NOT_FOUND" -> 404
                                [] OTHER -> 502

\* a raw endpoint has answered a NOT_FOUND result
C18_Witness == call.op \in FetchOps /\ ~call.success /\ call.code = "NOT_FOUND" /\ call.status = 404

-----------------------------------------------------------------------------
(* Claims about the import job (SpecImport) *)

\* C19: the status of an import pin only moves pending -> fetching and
\* fetching -> complete or error; it never leaves complete or error, never goes
\* back to pending and never reaches complete or error from pending.
C19_ImportPinStateMachine ==
    [][\A p \in Positions :
          \/ job'.status[p] = job.status[p]
          \/ <<job.status[p], job'.status[p]>> \in
                 {<<"pending", "fetching">>, <<"fetching", "complete">>, <<"fetching", "error">>}]_vars

\* C19 without its last part: complete and error are never left and no pin goes
\* back to pending.
TerminalStatusesAreNeverLeft ==
    [][\A p \in Positions :
          /\ job.status[p] \in {"complete", "error"} => job'.status[p] = job.status[p]
          /\ job.status[p] # "pending" => job'.status[p] # "pending"]_vars

\* C20: a pin submitted earlier is never taken in a later batch than a pin
\* submitted after it.
C20_BatchOrderIsSubmissionOrder ==
    \A p, q \in Positions :
        (p < q /\ job.batchOf[q] # 0)
            => job.batchOf[p] # 0 /\ job.batchOf[p] <= job.batchOf[q]

\* C20 with the order of the row ids in place of the submission order.
BatchOrderIsIdOrder ==
    \A p, q \in Positions :
        (job.rank[p] < job.rank[q] /\ job.batchOf[q] # 0)
            => job.batchOf[p] # 0 /\ job.batchOf[p] <= job.batchOf[q]

\* C21: at every moment at most BATCH_SIZE pins of the import job are in state
\* fetching, and every pin of an earlier batch is complete or error once a later
\* batch has been started.
C21_AtMostOneBatchFetching ==
    /\ Cardinality({p \in Positions : job.status[p] = "fetching"}) <= BATCH_SIZE
    /\ \A p \in Positions :
           (job.batchOf[p] # 0 /\ job.batchOf[p] < job.round)
               => job.status[p] \in {"complete", "error"}

\* C21 for a server process that is never restarted while the job runs
OneBatchFetchingWithoutRestart == job.crashes = 0 => C21_AtMostOneBatchFetching

-----------------------------------------------------------------------------
(* Claims about the bids (SpecBids) *)

\* digits, or digits "." digits
IsNonNegativeDecimal(s) ==
    \/ DecimalDigits(s)
    \/ \E i \in 1..Len(s) :
          s[i] = "." /\ DecimalDigits(SubSeq(s, 1, i - 1)) /\ DecimalDigits(SubSeq(s, i + 1, Len(s)))

\* C22: every stored bid and overbid is null or a non-negative decimal string.
C22_StoredBidsAreNonNegativeDecimals ==
    \A p \in DOMAIN bids.rows :
        \A v \in {bids.rows[p].bid, bids.rows[p].overbid} :
            v = SqlNull \/ IsNonNegativeDecimal(v)

\* C22, second part: a PUT answered 400 leaves pin_bids as it was.
RejectedPutLeavesRecord == [][bids'.res.status = 400 => bids'.rows = bids.rows]_vars

\* C22, third part: an accepted PUT with "" or null stores null for that value.
EmptyOrNullClears ==
    bids.res.status = 200 =>
        /\ bids.res.bid \in {JsonNull, JsonString(<< >>)} => bids.rows[bids.res.pin].bid = SqlNull
        /\ bids.res.overbid \in {JsonNull, JsonString(<< >>)}
               => bids.rows[bids.res.pin].overbid = SqlNull

-----------------------------------------------------------------------------
(* Claims about cancellation (SpecWire) *)

\* C23: once the client has cancelled a request, no upstream call of that
\* request is started or completed any more, and the step that cancels one
\* request leaves every other request as it is.
C23_CancellationStopsUpstreamCalls ==
    [][\A r \in Requests :
          /\ wire[r].client = "cancelled"
                => wire'[r].site \in {wire[r].site, "none"} /\ wire'[r].proxy # "returned"
          /\ (wire[r].client = "waiting" /\ wire'[r].client = "cancelled")
                => \A o \in Requests \ {r} : wire'[o] = wire[o]]_vars

\* C23, second part: cancelling one request changes no other request.
CancellingLeavesOtherRequests ==
    [][\A r \in Requests :
          (wire[r].client = "waiting" /\ wire'[r].client = "cancelled")
              => \A o \in Requests \ {r} : wire'[o] = wire[o]]_vars

-----------------------------------------------------------------------------
(* Claims about the drawer (SpecDrawer) *)

\* C24: a response is rendered only when no other pin has been opened and
\* close() has not been called since it was requested.
C24_NoStaleResponseIsRendered ==
    drawer.rendered # NoRender
        => /\ \A k \in drawer.rendered.by..drawer.opens : drawer.opened[k] = drawer.rendered.pin
           /\ drawer.rendered.closes = drawer.closes

\* C24 for the source responses alone
NoStaleSourceResponseIsRendered ==
    drawer.rendered.kind \in DrawerSources
        => drawer.rendered.by = drawer.opens /\ drawer.rendered.closes = drawer.closes

\* C24 for a bid response of another pin than the one shown
NoBidResponseOfAnotherPinIsRendered ==
    drawer.rendered.kind = "bids" => drawer.rendered.pin = drawer.currentPin

\* C25: while a pin is open its drawer is in the container, and at most one close
\* timer is pending.
C25_CloseTimerGuard ==
    /\ drawer.currentPin # NoPin => drawer.dom.pin = drawer.currentPin
    /\ Cardinality(drawer.closeTimers) <= 1

\* C25 for runs with at most one call of close()
CloseTimerGuardWithSingleCloses ==
    drawer.closes <= 1 => C25_CloseTimerGuard

-----------------------------------------------------------------------------
(* Claims about the protocol of the tax portal (SpecTaxPortal) *)

TaxPortalTokenNames == {"__VIEWSTATE", "__VIEWSTATEGENERATOR", "__EVENTVALIDATION"}

\* the requests of the session of the latest call obey the order of the protocol,
\* with the given hidden fields as the tokens of the landing page
TaxPortalOrder(tokenNames) ==
    (WentUpstream /\ call.op = "FetchTaxPortalAsync") =>
        \A i \in DOMAIN session :
            /\ session[i].req.url = "taxportal/pinresults.aspx"
                  => /\ i = 2
                     /\ session[1].req.url = "taxportal/default.aspx"
                     /\ session[1].kind = "resp"
                     /\ IsSuccessStatusCode(session[1])
                     /\ \A f \in tokenNames : ExtractFormValue(session[1].body, f) # Null
            /\ session[i].req.url = "assessor/pin"
                  => /\ i = 3
                     /\ i = Len(session)
                     /\ session[i].req.form.pin = StripDashes(call.pin)
                     /\ session[2].req.url = "taxportal/pinresults.aspx"
                     /\ session[2].kind = "resp"
                     /\ IsSuccessStatusCode(session[2])
                     /\ ~HasResults(session[2].body)
                     /\ IF session[i].kind = "resp" /\ IsSuccessStatusCode(session[i])
                           /\ HasResults(session[i].body)
                        THEN call.success /\ call.data.html = session[i].body
                        ELSE ~call.success

\* C26: the POST follows a successful GET of the landing page from which the
\* three hidden tokens were extracted; the fallback GET (pin without dashes)
\* follows a 2xx POST response without markers and its result is the result of
\* the call.
C26_TaxPortalProtocolOrder == TaxPortalOrder(TaxPortalTokenNames)

\* C26 with the two tokens the method tests in place of the three
TaxPortalOrderWithTestedTokens == TaxPortalOrder({"__VIEWSTATE", "__EVENTVALIDATION"})

\* a call of FetchTaxPortalAsync received a landing page from which not all of the
\* given hidden fields can be extracted, and ended without any further request
\* and without a change of the cache
TokenFailureIsFatal(tokenNames) ==
    (/\ call = NoCall
     /\ call'.op = "FetchTaxPortalAsync"
     /\ call'.cacheAccess
     /\ ~call'.hit
     /\ session'[1].kind = "resp"
     /\ \E f \in tokenNames : ExtractFormValue(session'[1].body, f) = Null)
        => /\ ~call'.success
           /\ call'.code = "FETCH_ERROR"
           /\ Len(session') = 1
           /\ memCache' = memCache

\* C27: when one of the three hidden tokens cannot be extracted from the landing
\* page, the call ends in FETCH_ERROR with no POST, no fallback, no retry and no
\* cache entry.
C27_TokenExtractionFailureIsFatal == [][TokenFailureIsFatal(TaxPortalTokenNames)]_vars

\* C27 for the view-state and the event-validation token
TestedTokenFailureIsFatal == [][TokenFailureIsFatal({"__VIEWSTATE", "__EVENTVALIDATION"})]_vars

-----------------------------------------------------------------------------
(* Claims about the protocol of the clerk (SpecClerk) *)

\* the requests of a run of the clerk's protocol: a POST is the second request,
\* follows a root page from which the token was extracted and carries that token,
\* the pin and the cookie of the root page; a root page without token ends the
\* run after its first request
ClerkOrder(pin, steps) ==
    /\ \A i \in DOMAIN steps :
           steps[i].req.method = "POST"
               => /\ i = 2
                  /\ steps[1].kind = "resp"
                  /\ ExtractFormValue(steps[1].body, "__RequestVerificationToken") # Null
                  /\ steps[i].req.form.token
                         = ExtractFormValue(steps[1].body, "__RequestVerificationToken")
                  /\ steps[i].req.form.pin = pin
                  /\ steps[i].req.cookie = steps[1].cookie
    /\ (steps # << >> /\ steps[1].kind = "resp"
           /\ ExtractFormValue(steps[1].body, "__RequestVerificationToken") = Null)
          => Len(steps) = 1

TokenMissing(steps) ==
    /\ steps # << >>
    /\ steps[1].kind = "resp"
    /\ ExtractFormValue(steps[1].body, "__RequestVerificationToken") = Null

\* C28: in FetchCountyClerkAsync and in fetchTaxDelinquent the POST follows the
\* extraction of the token and carries token, pin and cookie; without a token
\* the call ends in PARSE_ERROR with no POST and with the cache as it was.
C28_ClerkProtocolOrder ==
    [][/\ (call = NoCall /\ call'.op = "FetchCountyClerkAsync" /\ call'.cacheAccess /\ ~call'.hit)
          => /\ ClerkOrder(call'.pin, session')
             /\ TokenMissing(session')
                   => ~call'.success /\ call'.code = "PARSE_ERROR" /\ memCache' = memCache
       /\ (legacy' # legacy /\ legacy'.steps # << >>)
          => /\ ClerkOrder(legacy'.res.pin, legacy'.steps)
             /\ TokenMissing(legacy'.steps)
                   => /\ ~legacy'.res.success
                      /\ legacy'.res.code = "PARSE_ERROR"
                      /\ legacy'.cache = legacy.cache]_vars

\* both implementations have ended a run on a root page without token
C28_Witness ==
    /\ call.op = "FetchCountyClerkAsync"
    /\ TokenMissing(session)
    /\ call.code = "PARSE_ERROR"
    /\ TokenMissing(legacy.steps)
    /\ legacy.res.code = "PARSE_ERROR"

-----------------------------------------------------------------------------
(* Claims about the protocol of the recorder (SpecRecorder) *)

\* request i of the session is the GET of /Search/ResultByPin?id1= with the 14
\* digits of the pin of the call
IsDirectGet(i) ==
    /\ i \in DOMAIN session
    /\ session[i].req.method = "GET"
    /\ session[i].req.url = "recorder/Search/ResultByPin?id1="
    /\ session[i].req.form.pin = SelectSeq(call.pin, LAMBDA c : c \in Digits)
    /\ Len(session[i].req.form.pin) = 14

-----------------------------------------------------------------------------
(* Claims about a burst of requests (SpecBurst) *)

\* C30: of the requests for the same pin that are being served at once, at most
\* one has an outbound session to the tax portal.
C30_AtMostOneOutboundSessionPerKey ==
    \A p \in BurstPinInputs :
        Cardinality({r \in Requests : burst[r].pc = "upstream" /\ burst[r].pin = p}) <= 1

\* a request that arrives after the entry has been set is served from it
LaterRequestsAreServedFromTheEntry ==
    [][\A r \in Requests :
          (/\ burst[r].pc = "idle"
           /\ burst'[r].pc # "idle"
           /\ ValidatePin(burst'[r].pin)
           /\ HoldsEntry(memCache, FetchCacheKey("FetchTaxPortalAsync", burst'[r].pin)))
              => burst'[r].pc = "done" /\ burst'[r].hit]_vars

-----------------------------------------------------------------------------
(* Claims about upstream calls (SpecUpstream) *)

CallsWithATimeoutComplete ==
    \A c \in {"FetchCountyClerkAsync", "FetchRecorderAsync", "FetchCookViewerMapAsync"} :
        (upcall[c].pc = "waiting") ~> (upcall[c].pc = "done")

UnansweredCallsEndAsFailures ==
    \A c \in UpstreamCalls :
        (upcall[c].pc = "done" /\ ~upcall[c].answers) => upcall[c].result = FailureCode(c)

-----------------------------------------------------------------------------
(* Claims about the HTML parsers *)

ParsedTable == parse.fn = "ParseDocuments" /\ ~parse.input.isNull
HeaderCount == parse.input.headers.Count
DocumentsOf(output) == {output[i] : i \in DOMAIN output}

\* C32: a table with at least 9 header columns is parsed via the extended path
\* and its documents carry the grantor and grantee; a table with 6 header columns
\* is parsed via the simple path and its documents carry neither; the parser
\* always returns a list.
C32_RecorderLayoutDetection ==
    ParsedTable =>
        /\ HeaderCount >= 9 =>
              \A d \in DocumentsOf(parse.output) :
                  d.format = "extended" /\ d.FirstGrantor = "G1" /\ d.FirstGrantee = "G2"
        /\ HeaderCount = 6 =>
              \A d \in DocumentsOf(parse.output) :
                  d.format = "simple" /\ d.FirstGrantor = Null /\ d.FirstGrantee = Null
        /\ parse.output \in Seq(DocumentsOf(parse.output))

\* the part of C32 about 6 header columns and about never throwing
SimpleLayoutAndNoThrow ==
    ParsedTable =>
        /\ HeaderCount = 6 =>
              \A d \in DocumentsOf(parse.output) :
                  d.format = "simple" /\ d.FirstGrantor = Null /\ d.FirstGrantee = Null
        /\ parse.output \in Seq(DocumentsOf(parse.output))

\* C32 for tables whose rows have at least 10 cells
ExtendedLayoutWithTenCells ==
    (ParsedTable /\ HeaderCount >= 9
        /\ \A i \in DOMAIN parse.input.rows.trs : Len(parse.input.rows.trs[i]) >= 10)
    => \A d \in DocumentsOf(parse.output) : d.format = "extended" /\ d.FirstGrantee = "G2"

\* C33: every document of a parsed recorder result has a non-empty document
\* number and a non-empty document type.
C33_RecorderRowFilter ==
    /\ parse.fn = "ParseDocuments" =>
          \A d \in DocumentsOf(parse.output) :
              ~string_IsNullOrEmpty(d.DocumentNumber) /\ ~string_IsNullOrEmpty(d.DocumentType)
    /\ parse.fn = "ExtractRecorderDocuments" =>
          \A d \in DocumentsOf(parse.output) :
              ~string_IsNullOrEmpty(d.DocNumber) /\ ~string_IsNullOrEmpty(d.DocType)

\* C33 for the parser of the recorder endpoint
ParseDocumentsRowFilter ==
    parse.fn = "ParseDocuments" =>
        \A d \in DocumentsOf(parse.output) :
            ~string_IsNullOrEmpty(d.DocumentNumber) /\ ~string_IsNullOrEmpty(d.DocumentType)

\* a row that lacks the number or the type is left out and the rows after it are
\* still parsed
MalformedRowsAreSkipped ==
    (/\ parse.fn = "ParseDocuments"
     /\ ~parse.input.isNull /\ ~parse.input.headers.isNull
     /\ ~parse.input.headers.addressSearch
     /\ Len(parse.input.rows.trs) = 2
     /\ parse.input.rows.trs[1] = TableRow(6, Null, "DEED", "G1", "G2")
     /\ parse.input.rows.trs[2] = TableRow(6, "D1", "DEED", "G1", "G2"))
    => Len(parse.output) = 1 /\ parse.output[1].DocumentNumber = "D1"

WalkedRepeater == parse.fn \in {"ParseTaxBills", "ExtractTaxBills"}
HasYearLabel(doc, i) == i \in doc.present /\ i \notin doc.blank

\* the length of the longest prefix of 0..9 whose year labels are all there
LongestLabelledPrefix(doc) ==
    CHOOSE n \in 0..10 :
        /\ \A i \in 0..(n - 1) : HasYearLabel(doc, i)
        /\ n = 10 \/ ~HasYearLabel(doc, n)

\* C34: the bill list holds exactly the rows of the longest prefix of indices
\* 0..9 whose year label is there, in index order: at most 10 bills and no row
\* after the first missing year label.
C34_TaxBillRepeaterWalk ==
    WalkedRepeater =>
        /\ Len(parse.output) = LongestLabelledPrefix(parse.input)
        /\ Len(parse.output) <= 10
        /\ \A i \in DOMAIN parse.output : parse.output[i].Year = YearTexts[i]

\* a page with a gap at index 3 and rows after it, and a page with more than 10
\* rows
C34_Witness ==
    /\ WalkedRepeater
    /\ \/ /\ parse.input.present = RepeaterIndices \ {3}
          /\ Len(parse.output) = 3
       \/ /\ parse.input.present = RepeaterIndices /\ parse.input.blank = {}
          /\ Len(parse.output) = 10

-----------------------------------------------------------------------------
(* Claims about usable data in property_cache (Spec) *)

HasPayload(r) == r.data \notin {Null, Undefined}

\* C35: once the row of a (pin, source) holds a payload, no step leaves the key
\* with a row without one.
C35_PayloadIsNeverDestroyed ==
    [][\A r \in table :
          HasPayload(r) =>
              \E q \in table' : q.pin = r.pin /\ q.source = r.source /\ HasPayload(q)]_vars

\* the upsert that handleCachedEndpoint issues always carries a payload
ClientRequestsWriteOnlyPayloads == req.wrote = NoWrite \/ HasPayload(req.wrote)

\* C36: a response carries stale: true only if the live fetch of its request
\* failed and the row served is older than 7 days; a response with cached: true
\* and no stale was produced without a live fetch; a response produced from a
\* live fetch carries neither cached nor stale.
C36_StaleFlagIsTruthful ==
    req.pc = "done" =>
        /\ req.resp.stale =>
              /\ req.fetches = 1 /\ ~LiveOk(req.up)
              /\ req.resp.cached
              /\ req.resp.cachedAt = req.cached.fetchedAt
              /\ now - req.cached.fetchedAt > 7 * 24 * 60 * 60 * 1000
        /\ (req.resp.cached /\ ~req.resp.stale) => req.fetches = 0
        /\ (req.fetches = 1 /\ LiveOk(req.up)) => ~req.resp.cached /\ ~req.resp.stale

\* a request whose fetch failed is being answered from a row older than 7 days
C36_Witness ==
    /\ req.pc = "done" /\ req.resp.stale /\ req.fetches = 1
    /\ req.up = DotNetUnavailable

-----------------------------------------------------------------------------
(* Claims about the end of an import job *)

\* C37: whenever the job has status complete, none of its pins is pending or
\* fetching and completedPins + failedPins = totalPins.
C37_CompleteJobHasNoOpenPins ==
    job.state = "complete" =>
        /\ \A i \in Positions : job.status[i] \notin {"pending", "fetching"}
        /\ job.completedPins + job.failedPins = job.totalPins

\* C37 for a job during which the server was not restarted
CompleteJobWithoutRestart ==
    (job.state = "complete" /\ job.crashes = 0) =>
        /\ \A i \in Positions : job.status[i] \notin {"pending", "fetching"}
        /\ job.completedPins + job.failedPins = job.totalPins

\* no pin of a batch whose callbacks have all ended is still pending
BatchPinsLeftPending ==
    {i \in Positions : job.batchOf[i] # 0 /\ job.status[i] = "pending"}

\* C38: a run of processImportJob eventually ends with the job in status complete
\* or error, and every iteration of its loop takes its pins out of pending.
C38_ImportJobTerminates ==
    /\ (job.state = "processing") ~> (job.state \in {"complete", "error"})
    /\ []((job.active /\ InFlight(job) = {}) => BatchPinsLeftPending = {})

\* the run itself always ends: the job leaves activeJobs
ProcessImportJobReturns == job.active ~> ~job.active

\* every iteration of the loop that ends takes its pins out of pending
EveryIterationDecreasesPending ==
    (job.active /\ InFlight(job) = {}) => BatchPinsLeftPending = {}

\* a job that stays in processing after its run was ended by the catch block
EndedRunsLeaveProcessingOnlyByAFailedCatch ==
    (job.state = "processing" /\ ~job.active) =>
        \E i \in Positions : job.pc[i] = "done" /\ job.status[i] \in {"pending", "fetching"}

-----------------------------------------------------------------------------
(* Claims about the runs of processImportJob (SpecRuns) *)

\* C39: at most one run of processImportJob is active for the job at any time, no
\* pin is taken into fetching by two runs, and the job id is out of activeJobs once
\* no run is active.
C39_SingleRunnerPerJob ==
    /\ Cardinality(RunningRuns(runs)) <= 1
    /\ \A p \in RunPins : Cardinality(runs.tookToFetching[p]) <= 1
    /\ RunningRuns(runs) = {} => ~runs.activeJobs

\* at most one run is between activeJobs.add and activeJobs.delete, and the id is
\* in the set exactly while a run is
OneRunBetweenAddAndDelete ==
    /\ Cardinality(RunningRuns(runs)) <= 1
    /\ runs.activeJobs <=> RunningRuns(runs) # {}

\* of the runs that have taken one pin into fetching, all but one have ended
TakenTwiceOnlyWithAnEndedRun ==
    \A p \in RunPins :
        Cardinality({r \in runs.tookToFetching[p] : runs.run[r] # "ended"}) <= 1

-----------------------------------------------------------------------------
(* Claims about the outcome of an import pin (SpecPinOutcome) *)

\* the sources of the call for which no payload was stored: the .NET API answered
\* with an error or could not be reached, or the write of the payload was rejected
FailedSources ==
    {s \in SOURCES : fan.slot[s].pc # "idle" /\ fan.slot[s].w.data = Null}

\* C40: a pin ends in status error exactly when the fetch failed for all four
\* sources, ends in status complete with an error text exactly when one to three
\* sources failed, and a pin without error text had four successful fetches.
C40_PinOutcomeReflectsTheSources ==
    pinRow.pc = "done" /\ fan.state # "idle"
        => /\ pinRow.status = "error" <=> Cardinality(FailedSources) = 4
           /\ (pinRow.status = "complete" /\ pinRow.error # {}) <=> Cardinality(FailedSources) \in 1..3
           /\ pinRow.error = {} => FailedSources = {}

\* what the code does: the outcome follows the number of sources whose cache
\* write was rejected, whatever the sources answered
PinOutcomeReflectsTheRejectedWrites ==
    pinRow.pc = "done" /\ fan.state = "returned" /\ pinRow.error # {<<"catch", DbErrorMessage>>}
        => /\ pinRow.status = "error" <=> Cardinality(fan.errors) = 4
           /\ (pinRow.status = "complete" /\ pinRow.error # {}) <=> Cardinality(fan.errors) \in 1..3
           /\ pinRow.error = {} <=> fan.errors = {}

\* a pin whose four sources answered with a payload and whose writes were all
\* executed ends complete without error text
FourStoredPayloadsEndComplete ==
    pinRow.pc = "done" /\ fan.state = "returned" /\ FailedSources = {} /\ fan.errors = {}
        /\ pinRow.error # {<<"catch", DbErrorMessage>>}
        => pinRow.status = "complete" /\ pinRow.error = {}

FourStoredPayloadsEndComplete_Reached ==
    pinRow.pc = "done" /\ fan.state = "returned" /\ FailedSources = {} /\ pinRow.status = "complete"


\* all four sources answered with an error, every cache write was executed, and
\* the pin ended complete without error text
AllSourcesFailedAndPinComplete ==
    /\ pinRow.pc = "done" /\ fan.state = "returned" /\ fan.errors = {}
    /\ FailedSources = SOURCES
    /\ pinRow.status = "complete" /\ pinRow.error = {}

====
